---- MODULE Spec2Model ----
(***************************************************************************)
(* Model of the news API: the geo-filter and trending ranking of           *)
(* news_service.py, the lazily populated llm_summary column, the Redis     *)
(* cache of trending responses (cache_service.py) and the endpoints of     *)
(* main.py that drive them.                                                *)
(*                                                                         *)
(* Units.  Coordinates are integers in thousandths of a degree, distances  *)
(* and radii are integers in hundredths of a kilometre, time is counted    *)
(* in ticks of SecondsPerTick seconds.  A factor max(0.1, 1 - x/y) is      *)
(* carried as the integer max(y, 10*y - 10*x), i.e. scaled by 10*y, so a   *)
(* trending score for radius r is carried scaled by ScoreScale(r).         *)
(***************************************************************************)
EXTENDS Integers, Sequences, FiniteSets, TLC

\* ------------------------------------------------------------------ bounds
MaxLimit == 2           \* largest "limit" a request carries
MaxEvents == 2          \* rows of user_events in a drawn store
MaxStartups == 2        \* application startups against the same database
MaxNow == 2             \* last clock tick
MaxPendingTasks == 1    \* background tasks pending when a query is accepted
SampleEventCount == 1   \* rows generate_sample_user_events adds (1000 in main.py)

\* ------------------------------------------------------- program constants
cache_ttl_doubled == 2 * 300
cache_ttl == 300                      \* seconds
SecondsPerTick == 5 * 60               \* seconds in one tick of the clock
trending_window_hours == 24
TicksPerHour == 3600 \div SecondsPerTick
DecayTicks == trending_window_hours * TicksPerHour
BoxDegrees == 500                     \* 0.5 degree
FallbackChars == 200

Max(a, b) == IF a >= b THEN a ELSE b
Min(a, b) == IF a <= b THEN a ELSE b
Abs(x) == IF x >= 0 THEN x ELSE -x

\* --------------------------------------------------------- bounded inputs
Procs == {1, 2}                       \* requests in flight at once
Limits == 1..MaxLimit
Origins == {[latitude |-> 37774, longitude |-> -122419]}
Radii == {100, 600, 1000}             \* 1 km, 6 km, 10 km
EventTypes == {"view", "click", "share", "like"}

\* ---------------------------------------------------------------- strings
\* A text is carried by its origin and its length; "dots" marks a trailing
\* "..." appended by the truncating fallback.
Text(base, len) == [base |-> base, len |-> len, dots |-> FALSE]
NULL == Text("NULL", 0)
EmptyStr == Text("", 0)
TextLen(s) == s.len + (IF s.dots THEN 3 ELSE 0)
\* Python truthiness of an Optional[str]
Falsy(s) == s = NULL \/ TextLen(s) = 0
LLMTexts == {Text("llm", 80)}

Truncate_without_ellipsis(description) ==
    IF description.len > FallbackChars
    THEN [base |-> description.base, len |-> FallbackChars, dots |-> FALSE]
    ELSE description
\* description[:200] + "..." if len(description) > 200 else description
Truncate(description) ==
    IF description.len > FallbackChars
    THEN [base |-> description.base, len |-> FallbackChars, dots |-> TRUE]
    ELSE description

\* The values summarize_article can return: the provider's text, or the
\* truncated description when no provider is configured or the call raises.
summarize_article(prov, description) ==
    IF prov = "gemini" THEN LLMTexts \cup {Truncate(description)}
    ELSE {Truncate(description)}

\* ------------------------------------------------------------------- data
\* news_data.json: the static dataset loaded at the first startup.
NewsData == <<
    [id |-> "a1", description |-> Text("d1", 250), publication_date |-> 3,
     latitude |-> 37824, longitude |-> -122419],
    [id |-> "a2", description |-> Text("d2", 120), publication_date |-> 2,
     latitude |-> 37854, longitude |-> -122419],
    [id |-> "a3", description |-> EmptyStr, publication_date |-> 1,
     latitude |-> 37792, longitude |-> -122419] >>
ArticleIds == {NewsData[i].id : i \in 1..Len(NewsData)}

NewsArticleDB(article_data) ==
    [id |-> article_data.id, description |-> article_data.description,
     publication_date |-> [type |-> "datetime", value |-> article_data.publication_date],
     latitude |-> article_data.latitude, longitude |-> article_data.longitude,
     llm_summary |-> NULL]

\* Haversine distance (news_service.py, R = 6371) evaluated at the
\* coordinates the model uses, rounded to hundredths of a kilometre.
HaversineTable ==
    <<37774, -122419, 37774, -122419>> :> 0 @@ <<37774, -122419, 37772, -122421>> :> 28 @@
    <<37774, -122419, 37792, -122419>> :> 200 @@ <<37774, -122419, 37824, -122419>> :> 556 @@
    <<37774, -122419, 37854, -122419>> :> 890 @@ <<37774, -122419, 38074, -122419>> :> 3336 @@
    <<37774, -122419, 38374, -122419>> :> 6672 @@ <<37774, -122419, 37774, -121819>> :> 5274 @@
    <<37774, -122419, 38092, -122419>> :> 3536 @@ <<37774, -122419, 38124, -122419>> :> 3892 @@
    <<37774, -122419, 38154, -122419>> :> 4225 @@ <<37774, -122419, 4, -122419>> :> 419983 @@
    <<37774, -122419, -4, -122419>> :> 420072 @@ <<37774, -122419, 91000, -122419>> :> 591846 @@
    <<37774, -122419, 38274, -121919>> :> 7078 @@ <<37772, -122421, 37774, -122419>> :> 28 @@
    <<37772, -122421, 37772, -122421>> :> 0 @@ <<37772, -122421, 37792, -122419>> :> 223 @@
    <<37772, -122421, 37824, -122419>> :> 578 @@ <<37772, -122421, 37854, -122419>> :> 912 @@
    <<37772, -122421, 38074, -122419>> :> 3358 @@ <<37772, -122421, 38374, -122419>> :> 6694 @@
    <<37772, -122421, 37774, -121819>> :> 5291 @@ <<37772, -122421, 38092, -122419>> :> 3558 @@
    <<37772, -122421, 38124, -122419>> :> 3914 @@ <<37772, -122421, 38154, -122419>> :> 4248 @@
    <<37772, -122421, 4, -122419>> :> 419961 @@ <<37772, -122421, -4, -122419>> :> 420050 @@
    <<37772, -122421, 91000, -122419>> :> 591868 @@ <<37772, -122421, 38274, -121919>> :> 7106 @@
    <<37792, -122419, 37774, -122419>> :> 200 @@ <<37792, -122419, 37772, -122421>> :> 223 @@
    <<37792, -122419, 37792, -122419>> :> 0 @@ <<37792, -122419, 37824, -122419>> :> 356 @@
    <<37792, -122419, 37854, -122419>> :> 689 @@ <<37792, -122419, 38074, -122419>> :> 3136 @@
    <<37792, -122419, 38374, -122419>> :> 6472 @@ <<37792, -122419, 37774, -121819>> :> 5277 @@
    <<37792, -122419, 38092, -122419>> :> 3336 @@ <<37792, -122419, 38124, -122419>> :> 3692 @@
    <<37792, -122419, 38154, -122419>> :> 4025 @@ <<37792, -122419, 4, -122419>> :> 420183 @@
    <<37792, -122419, -4, -122419>> :> 420272 @@ <<37792, -122419, 91000, -122419>> :> 591646 @@
    <<37792, -122419, 38274, -121919>> :> 6921 @@ <<37824, -122419, 37774, -122419>> :> 556 @@
    <<37824, -122419, 37772, -122421>> :> 578 @@ <<37824, -122419, 37792, -122419>> :> 356 @@
    <<37824, -122419, 37824, -122419>> :> 0 @@ <<37824, -122419, 37854, -122419>> :> 334 @@
    <<37824, -122419, 38074, -122419>> :> 2780 @@ <<37824, -122419, 38374, -122419>> :> 6116 @@
    <<37824, -122419, 37774, -121819>> :> 5301 @@ <<37824, -122419, 38092, -122419>> :> 2980 @@
    <<37824, -122419, 38124, -122419>> :> 3336 @@ <<37824, -122419, 38154, -122419>> :> 3669 @@
    <<37824, -122419, 4, -122419>> :> 420539 @@ <<37824, -122419, -4, -122419>> :> 420628 @@
    <<37824, -122419, 91000, -122419>> :> 591290 @@ <<37824, -122419, 38274, -121919>> :> 6649 @@
    <<37854, -122419, 37774, -122419>> :> 890 @@ <<37854, -122419, 37772, -122421>> :> 912 @@
    <<37854, -122419, 37792, -122419>> :> 689 @@ <<37854, -122419, 37824, -122419>> :> 334 @@
    <<37854, -122419, 37854, -122419>> :> 0 @@ <<37854, -122419, 38074, -122419>> :> 2446 @@
    <<37854, -122419, 38374, -122419>> :> 5782 @@ <<37854, -122419, 37774, -121819>> :> 5345 @@
    <<37854, -122419, 38092, -122419>> :> 2646 @@ <<37854, -122419, 38124, -122419>> :> 3002 @@
    <<37854, -122419, 38154, -122419>> :> 3336 @@ <<37854, -122419, 4, -122419>> :> 420873 @@
    <<37854, -122419, -4, -122419>> :> 420962 @@ <<37854, -122419, 91000, -122419>> :> 590957 @@
    <<37854, -122419, 38274, -121919>> :> 6401 @@ <<38074, -122419, 37774, -122419>> :> 3336 @@
    <<38074, -122419, 37772, -122421>> :> 3358 @@ <<38074, -122419, 37792, -122419>> :> 3136 @@
    <<38074, -122419, 37824, -122419>> :> 2780 @@ <<38074, -122419, 37854, -122419>> :> 2446 @@
    <<38074, -122419, 38074, -122419>> :> 0 @@ <<38074, -122419, 38374, -122419>> :> 3336 @@
    <<38074, -122419, 37774, -121819>> :> 6231 @@ <<38074, -122419, 38092, -122419>> :> 200 @@
    <<38074, -122419, 38124, -122419>> :> 556 @@ <<38074, -122419, 38154, -122419>> :> 890 @@
    <<38074, -122419, 4, -122419>> :> 423319 @@ <<38074, -122419, -4, -122419>> :> 423408 @@
    <<38074, -122419, 91000, -122419>> :> 588510 @@ <<38074, -122419, 38274, -121919>> :> 4904 @@
    <<38374, -122419, 37774, -122419>> :> 6672 @@ <<38374, -122419, 37772, -122421>> :> 6694 @@
    <<38374, -122419, 37792, -122419>> :> 6472 @@ <<38374, -122419, 37824, -122419>> :> 6116 @@
    <<38374, -122419, 37854, -122419>> :> 5782 @@ <<38374, -122419, 38074, -122419>> :> 3336 @@
    <<38374, -122419, 38374, -122419>> :> 0 @@ <<38374, -122419, 37774, -121819>> :> 8491 @@
    <<38374, -122419, 38092, -122419>> :> 3136 @@ <<38374, -122419, 38124, -122419>> :> 2780 @@
    <<38374, -122419, 38154, -122419>> :> 2446 @@ <<38374, -122419, 4, -122419>> :> 426655 @@
    <<38374, -122419, -4, -122419>> :> 426744 @@ <<38374, -122419, 91000, -122419>> :> 585174 @@
    <<38374, -122419, 38274, -121919>> :> 4501 @@ <<37774, -121819, 37774, -122419>> :> 5274 @@
    <<37774, -121819, 37772, -122421>> :> 5291 @@ <<37774, -121819, 37792, -122419>> :> 5277 @@
    <<37774, -121819, 37824, -122419>> :> 5301 @@ <<37774, -121819, 37854, -122419>> :> 5345 @@
    <<37774, -121819, 38074, -122419>> :> 6231 @@ <<37774, -121819, 38374, -122419>> :> 8491 @@
    <<37774, -121819, 37774, -121819>> :> 0 @@ <<37774, -121819, 38092, -122419>> :> 6340 @@
    <<37774, -121819, 38124, -122419>> :> 6544 @@ <<37774, -121819, 38154, -122419>> :> 6747 @@
    <<37774, -121819, 4, -122419>> :> 420028 @@ <<37774, -121819, -4, -122419>> :> 420117 @@
    <<37774, -121819, 91000, -122419>> :> 591846 @@ <<37774, -121819, 38274, -121919>> :> 5628 @@
    <<38092, -122419, 37774, -122419>> :> 3536 @@ <<38092, -122419, 37772, -122421>> :> 3558 @@
    <<38092, -122419, 37792, -122419>> :> 3336 @@ <<38092, -122419, 37824, -122419>> :> 2980 @@
    <<38092, -122419, 37854, -122419>> :> 2646 @@ <<38092, -122419, 38074, -122419>> :> 200 @@
    <<38092, -122419, 38374, -122419>> :> 3136 @@ <<38092, -122419, 37774, -121819>> :> 6340 @@
    <<38092, -122419, 38092, -122419>> :> 0 @@ <<38092, -122419, 38124, -122419>> :> 356 @@
    <<38092, -122419, 38154, -122419>> :> 689 @@ <<38092, -122419, 4, -122419>> :> 423519 @@
    <<38092, -122419, -4, -122419>> :> 423608 @@ <<38092, -122419, 91000, -122419>> :> 588310 @@
    <<38092, -122419, 38274, -121919>> :> 4816 @@ <<38124, -122419, 37774, -122419>> :> 3892 @@
    <<38124, -122419, 37772, -122421>> :> 3914 @@ <<38124, -122419, 37792, -122419>> :> 3692 @@
    <<38124, -122419, 37824, -122419>> :> 3336 @@ <<38124, -122419, 37854, -122419>> :> 3002 @@
    <<38124, -122419, 38074, -122419>> :> 556 @@ <<38124, -122419, 38374, -122419>> :> 2780 @@
    <<38124, -122419, 37774, -121819>> :> 6544 @@ <<38124, -122419, 38092, -122419>> :> 356 @@
    <<38124, -122419, 38124, -122419>> :> 0 @@ <<38124, -122419, 38154, -122419>> :> 334 @@
    <<38124, -122419, 4, -122419>> :> 423875 @@ <<38124, -122419, -4, -122419>> :> 423964 @@
    <<38124, -122419, 91000, -122419>> :> 587954 @@ <<38124, -122419, 38274, -121919>> :> 4677 @@
    <<38154, -122419, 37774, -122419>> :> 4225 @@ <<38154, -122419, 37772, -122421>> :> 4248 @@
    <<38154, -122419, 37792, -122419>> :> 4025 @@ <<38154, -122419, 37824, -122419>> :> 3669 @@
    <<38154, -122419, 37854, -122419>> :> 3336 @@ <<38154, -122419, 38074, -122419>> :> 890 @@
    <<38154, -122419, 38374, -122419>> :> 2446 @@ <<38154, -122419, 37774, -121819>> :> 6747 @@
    <<38154, -122419, 38092, -122419>> :> 689 @@ <<38154, -122419, 38124, -122419>> :> 334 @@
    <<38154, -122419, 38154, -122419>> :> 0 @@ <<38154, -122419, 4, -122419>> :> 424209 @@
    <<38154, -122419, -4, -122419>> :> 424298 @@ <<38154, -122419, 91000, -122419>> :> 587621 @@
    <<38154, -122419, 38274, -121919>> :> 4568 @@ <<4, -122419, 37774, -122419>> :> 419983 @@
    <<4, -122419, 37772, -122421>> :> 419961 @@ <<4, -122419, 37792, -122419>> :> 420183 @@
    <<4, -122419, 37824, -122419>> :> 420539 @@ <<4, -122419, 37854, -122419>> :> 420873 @@
    <<4, -122419, 38074, -122419>> :> 423319 @@ <<4, -122419, 38374, -122419>> :> 426655 @@
    <<4, -122419, 37774, -121819>> :> 420028 @@ <<4, -122419, 38092, -122419>> :> 423519 @@
    <<4, -122419, 38124, -122419>> :> 423875 @@ <<4, -122419, 38154, -122419>> :> 424209 @@
    <<4, -122419, 4, -122419>> :> 0 @@ <<4, -122419, -4, -122419>> :> 89 @@
    <<4, -122419, 91000, -122419>> :> 1011829 @@ <<4, -122419, 38274, -121919>> :> 425574 @@
    <<-4, -122419, 37774, -122419>> :> 420072 @@ <<-4, -122419, 37772, -122421>> :> 420050 @@
    <<-4, -122419, 37792, -122419>> :> 420272 @@ <<-4, -122419, 37824, -122419>> :> 420628 @@
    <<-4, -122419, 37854, -122419>> :> 420962 @@ <<-4, -122419, 38074, -122419>> :> 423408 @@
    <<-4, -122419, 38374, -122419>> :> 426744 @@ <<-4, -122419, 37774, -121819>> :> 420117 @@
    <<-4, -122419, 38092, -122419>> :> 423608 @@ <<-4, -122419, 38124, -122419>> :> 423964 @@
    <<-4, -122419, 38154, -122419>> :> 424298 @@ <<-4, -122419, 4, -122419>> :> 89 @@
    <<-4, -122419, -4, -122419>> :> 0 @@ <<-4, -122419, 91000, -122419>> :> 1011918 @@
    <<-4, -122419, 38274, -121919>> :> 425663 @@ <<91000, -122419, 37774, -122419>> :> 591846 @@
    <<91000, -122419, 37772, -122421>> :> 591868 @@ <<91000, -122419, 37792, -122419>> :> 591646 @@
    <<91000, -122419, 37824, -122419>> :> 591290 @@ <<91000, -122419, 37854, -122419>> :> 590957 @@
    <<91000, -122419, 38074, -122419>> :> 588510 @@ <<91000, -122419, 38374, -122419>> :> 585174 @@
    <<91000, -122419, 37774, -121819>> :> 591846 @@ <<91000, -122419, 38092, -122419>> :> 588310 @@
    <<91000, -122419, 38124, -122419>> :> 587954 @@ <<91000, -122419, 38154, -122419>> :> 587621 @@
    <<91000, -122419, 4, -122419>> :> 1011829 @@ <<91000, -122419, -4, -122419>> :> 1011918 @@
    <<91000, -122419, 91000, -122419>> :> 0 @@ <<91000, -122419, 38274, -121919>> :> 586286 @@
    <<38274, -121919, 37774, -122419>> :> 7078 @@ <<38274, -121919, 37772, -122421>> :> 7106 @@
    <<38274, -121919, 37792, -122419>> :> 6921 @@ <<38274, -121919, 37824, -122419>> :> 6649 @@
    <<38274, -121919, 37854, -122419>> :> 6401 @@ <<38274, -121919, 38074, -122419>> :> 4904 @@
    <<38274, -121919, 38374, -122419>> :> 4501 @@ <<38274, -121919, 37774, -121819>> :> 5628 @@
    <<38274, -121919, 38092, -122419>> :> 4816 @@ <<38274, -121919, 38124, -122419>> :> 4677 @@
    <<38274, -121919, 38154, -122419>> :> 4568 @@ <<38274, -121919, 4, -122419>> :> 425574 @@
    <<38274, -121919, -4, -122419>> :> 425663 @@ <<38274, -121919, 91000, -122419>> :> 586286 @@
    <<38274, -121919, 38274, -121919>> :> 0

_calculate_distance_northward(lat1, lon1, lat2, lon2) ==
    IF lat2 >= lat1 THEN HaversineTable[<<lat1, lon1, lat2, lon2>>]
    ELSE HaversineTable[<<lat1, lon1, lat2, lon2>>] + 1
_calculate_distance(lat1, lon1, lat2, lon2) ==
    HaversineTable[<<lat1, lon1, lat2, lon2>>]

\* ------------------------------------------------------------------ state
VARIABLES
    news_articles,      \* table news_articles, rows in insertion order
    user_events,        \* table user_events, rows in insertion order
    now,                \* datetime.utcnow(), in ticks
    provider,           \* the configured summarizer: "none" or "gemini"
    REDIS_AVAILABLE,    \* cache_service.REDIS_AVAILABLE, fixed at import
    redis,              \* the Redis keyspace: records [key, value, expire_at]
    session,            \* per request in flight: where its handler stands
    background_tasks,   \* BackgroundTasks not yet run: article id -> count
    response,           \* the last response a handler returned
    cache_writes,       \* history: the last successful setex of each key
    startups            \* number of lifespan startups so far

vars == <<news_articles, user_events, now, provider, REDIS_AVAILABLE, redis,
          session, background_tasks, response, cache_writes, startups>>

Idle == [pc |-> "idle", endpoint |-> "", latitude |-> 0, longitude |-> 0,
         radius_km |-> 0, limit |-> 0, todo |-> <<>>, done |-> <<>>,
         expired |-> FALSE, cache |-> "", log |-> <<>>]
NoResponse == [endpoint |-> "", latitude |-> 0, longitude |-> 0, radius_km |-> 0,
               limit |-> 0, cache |-> "", body |-> <<>>, log |-> <<>>]
NoBackgroundTasks == [id \in ArticleIds |-> 0]

\* ------------------------------------------------------------ list.sort()
\* Python's sort is stable; x[1] is carried as field k.
RECURSIVE InsertAscending(_, _)
InsertAscending(s, x) ==
    IF s = <<>> THEN <<x>>
    ELSE IF Head(s).k <= x.k THEN <<Head(s)>> \o InsertAscending(Tail(s), x)
    ELSE <<x>> \o s
sort_by_distance_unsorted(s) == s
RECURSIVE sort_by_distance(_)
sort_by_distance(s) ==
    IF s = <<>> THEN <<>>
    ELSE InsertAscending(sort_by_distance(SubSeq(s, 1, Len(s) - 1)), s[Len(s)])

RECURSIVE InsertDescending_ties_reversed(_, _)
InsertDescending_ties_reversed(s, x) ==
    IF s = <<>> THEN <<x>>
    ELSE IF Head(s).k > x.k THEN <<Head(s)>> \o InsertDescending_ties_reversed(Tail(s), x)
    ELSE <<x>> \o s
RECURSIVE InsertDescending(_, _)
InsertDescending(s, x) ==
    IF s = <<>> THEN <<x>>
    ELSE IF Head(s).k >= x.k THEN <<Head(s)>> \o InsertDescending(Tail(s), x)
    ELSE <<x>> \o s
RECURSIVE sort_by_score_forward(_)
sort_by_score_forward(s) ==
    IF s = <<>> THEN <<>>
    ELSE InsertAscending(sort_by_score_forward(SubSeq(s, 1, Len(s) - 1)), s[Len(s)])
RECURSIVE sort_by_score_reverse(_)
sort_by_score_reverse(s) ==
    IF s = <<>> THEN <<>>
    ELSE InsertDescending(sort_by_score_reverse(SubSeq(s, 1, Len(s) - 1)), s[Len(s)])

Slice(s, n) == SubSeq(s, 1, Min(n, Len(s)))

\* ------------------------------------------------------------- geo-filter
RECURSIVE nearby_articles_unfiltered(_, _, _, _, _)
nearby_articles_unfiltered(table, i, latitude, longitude, radius_km) ==
    IF i > Len(table) THEN <<>>
    ELSE <<[v |-> i, k |-> _calculate_distance(latitude, longitude,
                               table[i].latitude, table[i].longitude)]>>
         \o nearby_articles_unfiltered(table, i + 1, latitude, longitude, radius_km)

\* The loop of get_nearby_news: rows i..Len(table) within radius_km, each
\* paired with its distance, in table order.
RECURSIVE nearby_articles(_, _, _, _, _)
nearby_articles(table, i, latitude, longitude, radius_km) ==
    IF i > Len(table) THEN <<>>
    ELSE LET distance == _calculate_distance(latitude, longitude,
                             table[i].latitude, table[i].longitude)
             rest == nearby_articles(table, i + 1, latitude, longitude, radius_km)
         IN IF distance <= radius_km THEN <<[v |-> i, k |-> distance]>> \o rest
            ELSE rest

\* get_nearby_news up to the call of _process_articles: the row numbers of
\* the nearest articles.
get_nearby_news(table, latitude, longitude, radius_km, limit) ==
    LET sorted == sort_by_distance(nearby_articles(table, 1, latitude, longitude, radius_km))
        top == Slice(sorted, limit)
    IN [j \in 1..Len(top) |-> top[j].v]

\* ---------------------------------------------------------- trending score
event_weights_share_as_like(event_type) ==
    CASE event_type = "view" -> 1
      [] event_type = "click" -> 2
      [] event_type = "share" -> 3
      [] event_type = "like" -> 3
      [] OTHER -> 1

event_weights(event_type) ==
    CASE event_type = "view" -> 1
      [] event_type = "click" -> 2
      [] event_type = "share" -> 5
      [] event_type = "like" -> 3
      [] OTHER -> 1

RecencyScale == 10 * DecayTicks
DistanceScale(radius_km) == 10 * radius_km
ScoreScale(radius_km) == RecencyScale * DistanceScale(radius_km)

\* max(0.1, 1.0 - hours_ago / 24), scaled by RecencyScale
recency_factor(event, current_time) ==
    Max(DecayTicks, RecencyScale - 10 * (current_time - event.timestamp))

distance_factor_without_floor(event, latitude, longitude, radius_km) ==
    LET distance == _calculate_distance(latitude, longitude,
                                        event.latitude, event.longitude)
    IN Max(0, DistanceScale(radius_km) - 10 * distance)
\* max(0.1, 1.0 - distance / radius_km), scaled by DistanceScale(radius_km)
distance_factor(event, latitude, longitude, radius_km) ==
    LET distance == _calculate_distance(latitude, longitude,
                                        event.latitude, event.longitude)
    IN Max(radius_km, DistanceScale(radius_km) - 10 * distance)

\* The query of _calculate_trending_score: the rows it selects, in order.
RECURSIVE recent_events(_, _, _, _, _, _)
recent_events(events, i, article_id, latitude, longitude, cutoff_time) ==
    IF i > Len(events) THEN <<>>
    ELSE LET e == events[i]
             rest == recent_events(events, i + 1, article_id, latitude, longitude, cutoff_time)
         IN IF /\ e.article_id = article_id
               /\ e.timestamp >= cutoff_time
               /\ Abs(e.latitude - latitude) <= BoxDegrees
               /\ Abs(e.longitude - longitude) <= BoxDegrees
            THEN <<e>> \o rest
            ELSE rest

RECURSIVE sum_event_scores(_, _, _, _, _)
sum_event_scores(events, current_time, latitude, longitude, radius_km) ==
    IF events = <<>> THEN 0
    ELSE event_weights(Head(events).event_type)
             * recency_factor(Head(events), current_time)
             * distance_factor(Head(events), latitude, longitude, radius_km)
         + sum_event_scores(Tail(events), current_time, latitude, longitude, radius_km)

\* Scaled by ScoreScale(radius_km).
_calculate_trending_score(events, current_time, article_id, latitude, longitude, radius_km) ==
    LET selected == recent_events(events, 1, article_id, latitude, longitude,
                                  current_time - DecayTicks)
    IN IF selected = <<>> THEN 0
       ELSE sum_event_scores(selected, current_time, latitude, longitude, radius_km)

RECURSIVE trending_data_keep_zero(_, _, _, _, _, _)
trending_data_keep_zero(articles, events, current_time, latitude, longitude, radius_km) ==
    IF articles = <<>> THEN <<>>
    ELSE <<[v |-> Head(articles),
            k |-> _calculate_trending_score(events, current_time, Head(articles).id,
                                            latitude, longitude, radius_km)]>>
         \o trending_data_keep_zero(Tail(articles), events, current_time,
                                    latitude, longitude, radius_km)

\* The scoring loop of get_trending_news over the processed nearby articles.
RECURSIVE trending_data(_, _, _, _, _, _)
trending_data(articles, events, current_time, latitude, longitude, radius_km) ==
    IF articles = <<>> THEN <<>>
    ELSE LET score == _calculate_trending_score(events, current_time,
                          Head(articles).id, latitude, longitude, radius_km)
             rest == trending_data(Tail(articles), events, current_time,
                                   latitude, longitude, radius_km)
         IN IF score > 0 THEN <<[v |-> Head(articles), k |-> score]>> \o rest
            ELSE rest

TrendingResponse(articles, trending_scores, latitude, longitude, radius_km, total_count) ==
    [articles |-> articles, trending_scores |-> trending_scores,
     location |-> [latitude |-> latitude, longitude |-> longitude],
     radius_km |-> radius_km, total_count |-> total_count]

\* get_trending_news after its call of get_nearby_news returned nearby.
get_trending_news(nearby, events, current_time, latitude, longitude, radius_km, limit) ==
    IF nearby = <<>>
    THEN TrendingResponse(<<>>, <<>>, latitude, longitude, radius_km, 0)
    ELSE LET data == sort_by_score_reverse(
                         trending_data(nearby, events, current_time,
                                       latitude, longitude, radius_km))
             top == Slice(data, limit)
         IN TrendingResponse([j \in 1..Len(top) |-> top[j].v],
                             [j \in 1..Len(top) |-> top[j].k],
                             latitude, longitude, radius_km, Len(data))

\* ------------------------------------------------------------------ cache
None == [none |-> TRUE]

\* round(x, ndigits) for x a multiple of a tenth of unit; a tie goes to the
\* even neighbour.
Round(x, unit) ==
    LET q == x \div unit
        rem == x % unit
    IN IF 2 * rem > unit \/ (2 * rem = unit /\ q % 2 = 1) THEN (q + 1) * unit
       ELSE q * unit

\* f"{round(x, ndigits)}": the text of the rounded float.  round keeps the sign
\* of its argument, so a negative x that rounds to zero is written "-0.0".
FloatStr(x, unit) == [minus |-> x < 0, digits |-> Abs(Round(x, unit))]

\* hashlib.md5(key_data.encode()).hexdigest(): a digest of the formatted key,
\* taken to be free of collisions
_generate_cache_key(latitude, longitude, radius_km, limit) ==
    LET lat_rounded == FloatStr(latitude, 10)
        lon_rounded == FloatStr(longitude, 10)
        radius_rounded == FloatStr(radius_km, 10)
    IN [md5 |-> <<"trending", lat_rounded, lon_rounded, radius_rounded, limit>>]

\* json.dumps(data, default=str): a datetime is written as its str()
json_dumps(data) ==
    [data EXCEPT !.articles =
        [j \in 1..Len(@) |-> [@[j] EXCEPT !.publication_date.type = "str"]]]
\* TrendingResponse(**json.loads(...)): the model parses the strings back
TrendingResponseFromDict(cached_data) ==
    [cached_data EXCEPT !.articles =
        [j \in 1..Len(@) |-> [@[j] EXCEPT !.publication_date.type = "datetime"]]]

\* redis_client.get(cache_key): the live entry of the key, if any
RedisGet(keyspace, cache_key, current_time) ==
    IF \E e \in keyspace : e.key = cache_key /\ current_time < e.expire_at
    THEN (CHOOSE e \in keyspace : e.key = cache_key /\ current_time < e.expire_at).value
    ELSE None
RedisSetex_keeping_old(keyspace, cache_key, ttl, value, current_time) ==
    keyspace \cup {[key |-> cache_key, value |-> value,
                    expire_at |-> current_time + ttl \div SecondsPerTick]}
\* redis_client.setex(cache_key, ttl, value)
RedisSetex(keyspace, cache_key, ttl, value, current_time) ==
    {e \in keyspace : e.key # cache_key}
        \cup {[key |-> cache_key, value |-> value,
               expire_at |-> current_time + ttl \div SecondsPerTick]}

get_trending_cache_unguarded(ok, latitude, longitude, radius_km, limit) ==
    RedisGet(redis, _generate_cache_key(latitude, longitude, radius_km, limit), now)
\* get_trending_cache; ok = the Redis call did not raise
get_trending_cache(ok, latitude, longitude, radius_km, limit) ==
    IF ~REDIS_AVAILABLE \/ ~ok THEN None
    ELSE RedisGet(redis, _generate_cache_key(latitude, longitude, radius_km, limit), now)

\* set_trending_cache: the keyspace it leaves
set_trending_cache(ok, latitude, longitude, radius_km, limit, data) ==
    IF ~REDIS_AVAILABLE \/ ~ok THEN redis
    ELSE RedisSetex(redis, _generate_cache_key(latitude, longitude, radius_km, limit),
                    cache_ttl, json_dumps(data), now)

\* -------------------------------------------------------- _process_articles
NewsArticle(row, llm_summary) ==
    [id |-> row.id, publication_date |-> row.publication_date,
     llm_summary |-> llm_summary]

\* article.llm_summary = llm_summary; self.db.commit()
CommitSummary(table, i, llm_summary) ==
    [table EXCEPT ![i].llm_summary = llm_summary]

\* The rows a query loaded into the session: row number and the llm_summary
\* read at load time.
Loaded(table, rows) ==
    [j \in 1..Len(rows) |-> [i |-> rows[j], llm_summary |-> table[rows[j]].llm_summary]]

\* What the session sees when it reads article.llm_summary: the value loaded
\* by its query, or the stored one once a commit has expired its objects.
ReadSummary(table, st) ==
    IF st.expired THEN table[Head(st.todo).i].llm_summary
    ELSE Head(st.todo).llm_summary

\* commit() expires every object of the session.
Expire(todo) == [j \in 1..Len(todo) |-> [todo[j] EXCEPT !.llm_summary = NULL]]

\* One pass of the loop body after the summarizer returned llm_summary.
AfterSummary(table, st, llm_summary) ==
    LET i == Head(st.todo).i
    IN [table |-> CommitSummary(table, i, llm_summary),
        st |-> [st EXCEPT !.todo = Expire(Tail(@)),
                          !.done = Append(@, NewsArticle(table[i], llm_summary)),
                          !.expired = TRUE]]

\* The loop of _process_articles, run until it awaits a provider call
\* (pc "await") or the list is exhausted (pc "done").
RECURSIVE _process_articles(_, _)
_process_articles(table, st) ==
    IF st.todo = <<>> THEN [table |-> table, st |-> [st EXCEPT !.pc = "done"]]
    ELSE LET i == Head(st.todo).i
             llm_summary == ReadSummary(table, st)
         IN IF ~Falsy(llm_summary)
            THEN _process_articles(table,
                     [st EXCEPT !.todo = Tail(@),
                                !.done = Append(@, NewsArticle(table[i], llm_summary))])
            ELSE IF provider = "gemini"
            THEN [table |-> table, st |-> [st EXCEPT !.pc = "await"]]
            ELSE LET r == AfterSummary(table, st, Truncate(table[i].description))
                 IN _process_articles(r.table, r.st)

\* ---------------------------------------------------------------- handlers
\* cache is the outcome of the cache lookup: "hit", "miss", "error" (the
\* Redis call raised), "off" (Redis unavailable) or "" (no lookup).
Request(endpoint, latitude, longitude, radius_km, limit, todo, cache) ==
    [pc |-> "run", endpoint |-> endpoint, latitude |-> latitude,
     longitude |-> longitude, radius_km |-> radius_km, limit |-> limit,
     todo |-> Loaded(news_articles, todo), done |-> <<>>,
     expired |-> FALSE, cache |-> cache, log |-> <<>>]

\* A response with the request it answers; log keeps, for a computed
\* trending response, the time of the computation, the nearby articles and
\* the score _calculate_trending_score returned for each.
Respond(st, body, log) ==
    [endpoint |-> st.endpoint, latitude |-> st.latitude, longitude |-> st.longitude,
     radius_km |-> st.radius_km, limit |-> st.limit, cache |-> st.cache, body |-> body,
     log |-> log]

\* for article in articles: if not article.llm_summary: add_task(...)
RECURSIVE add_tasks(_, _)
add_tasks(tasks, articles) ==
    IF articles = <<>> THEN tasks
    ELSE add_tasks(IF Falsy(Head(articles).llm_summary)
                   THEN [tasks EXCEPT ![Head(articles).id] = @ + 1]
                   ELSE tasks,
                   Tail(articles))

\* The rest of a handler once _process_articles has returned st.done.
Return(p, st) ==
    /\ session' = [session EXCEPT ![p] = Idle]
    /\ CASE st.endpoint = "nearby" ->
              /\ response' = Respond(st, [articles |-> st.done, total_count |-> Len(st.done)], <<>>)
              /\ UNCHANGED <<redis, cache_writes, background_tasks>>
         [] st.endpoint = "query" ->
              /\ response' = Respond(st, [articles |-> st.done, total_count |-> Len(st.done)],
                                     st.log)
              /\ background_tasks' = add_tasks(background_tasks, st.done)
              /\ UNCHANGED <<redis, cache_writes>>
         [] st.endpoint = "trending" ->
              LET trending_response ==
                      get_trending_news(st.done, user_events, now, st.latitude,
                                        st.longitude, st.radius_km, st.limit)
                  cache_key == _generate_cache_key(st.latitude, st.longitude,
                                                   st.radius_km, st.limit)
              IN /\ response' = Respond(st, trending_response,
                                 [current_time |-> now,
                                  nearby |-> [j \in 1..Len(st.done) |-> st.done[j].id],
                                  scores |-> [j \in 1..Len(st.done) |->
                                      _calculate_trending_score(user_events, now,
                                          st.done[j].id, st.latitude, st.longitude,
                                          st.radius_km)]])
                 /\ \E ok \in (IF REDIS_AVAILABLE THEN BOOLEAN ELSE {FALSE}) :
                       /\ redis' = set_trending_cache(ok, st.latitude, st.longitude,
                                       st.radius_km, st.limit, trending_response)
                       /\ cache_writes' =
                              IF ok THEN {w \in cache_writes : w.key # cache_key}
                                         \cup {[key |-> cache_key, latitude |-> st.latitude,
                                                longitude |-> st.longitude,
                                                radius_km |-> st.radius_km,
                                                limit |-> st.limit,
                                                data |-> trending_response, at |-> now]}
                              ELSE cache_writes
                 /\ UNCHANGED background_tasks

\* Run the handler of p from state st until it awaits or returns.
Continue(p, table, st) ==
    LET r == _process_articles(table, st)
    IN /\ news_articles' = r.table
       /\ IF r.st.pc = "await"
          THEN /\ session' = [session EXCEPT ![p] = r.st]
               /\ UNCHANGED <<redis, cache_writes, background_tasks, response>>
          ELSE Return(p, r.st)

\* GET /api/v1/news/nearby
NearbyRequest(p, latitude, longitude, radius_km, limit) ==
    /\ session[p].pc = "idle"
    /\ startups > 0
    /\ Continue(p, news_articles,
           Request("nearby", latitude, longitude, radius_km, limit,
               get_nearby_news(news_articles, latitude, longitude, radius_km, limit), ""))
    /\ UNCHANGED <<user_events, now, provider, REDIS_AVAILABLE, startups>>

\* GET /api/v1/news/trending
TrendingRequest(p, latitude, longitude, radius_km, limit) ==
    /\ session[p].pc = "idle"
    /\ startups > 0
    /\ \E ok \in (IF REDIS_AVAILABLE THEN BOOLEAN ELSE {FALSE}) :
          LET cached_data == get_trending_cache(ok, latitude, longitude, radius_km, limit)
              st == Request("trending", latitude, longitude, radius_km, limit,
                        get_nearby_news(news_articles, latitude, longitude,
                                        radius_km, limit * 2),
                        IF ~REDIS_AVAILABLE THEN "off"
                        ELSE IF ~ok THEN "error"
                        ELSE IF cached_data # None THEN "hit" ELSE "miss")
          IN IF cached_data # None
             THEN /\ response' = Respond(st, TrendingResponseFromDict(cached_data), <<>>)
                  /\ UNCHANGED <<news_articles, session, redis, cache_writes,
                                 background_tasks>>
             ELSE Continue(p, news_articles, st)
    /\ UNCHANGED <<user_events, now, provider, REDIS_AVAILABLE, startups>>

\* The provider call awaited in _process_articles returns llm_summary.
SummaryReturned(p, llm_summary) ==
    /\ session[p].pc = "await"
    /\ llm_summary \in summarize_article(provider,
                           news_articles[Head(session[p].todo).i].description)
    /\ LET r == AfterSummary(news_articles, session[p], llm_summary)
       IN Continue(p, r.table, r.st)
    /\ UNCHANGED <<user_events, now, provider, REDIS_AVAILABLE, startups>>

\* POST /api/v1/news/query: the handler process_query dispatches to selects
\* the rows of "selected" (a filtered, ordered, limited query) and processes
\* them; the endpoint then queues a background task per falsy summary.
RECURSIVE RowsOf(_, _)
RowsOf(selected, i) ==
    IF i > Len(news_articles) THEN <<>>
    ELSE (IF i \in selected THEN <<i>> ELSE <<>>) \o RowsOf(selected, i + 1)

RECURSIVE PendingTasks(_)
PendingTasks(ids) ==
    IF ids = {} THEN 0
    ELSE LET id == CHOOSE x \in ids : TRUE
         IN background_tasks[id] + PendingTasks(ids \ {id})

QueryRequest(p, selected, limit) ==
    /\ session[p].pc = "idle"
    /\ selected \subseteq 1..Len(news_articles)
    /\ Cardinality(selected) <= limit
    /\ PendingTasks(ArticleIds) < MaxPendingTasks
    /\ Continue(p, news_articles,
           Request("query", 0, 0, 0, limit, RowsOf(selected, 1), ""))
    /\ UNCHANGED <<user_events, now, provider, REDIS_AVAILABLE, startups>>

\* main._generate_article_summary, run after the response was sent
_generate_article_summary(article_id, summary) ==
    /\ background_tasks[article_id] > 0
    /\ \E i \in 1..Len(news_articles) :
          /\ news_articles[i].id = article_id
          /\ summary \in summarize_article(provider, news_articles[i].description)
          /\ news_articles' = CommitSummary(news_articles, i, summary)
    /\ background_tasks' = [background_tasks EXCEPT ![article_id] = @ - 1]
    /\ UNCHANGED <<user_events, now, provider, REDIS_AVAILABLE, redis, session,
                   response, cache_writes, startups>>

\* ------------------------------------------------------------- validation
\* Query(..., ge=-90.0, le=90.0) and Field(ge=-90.0, le=90.0), and so on
ValidLatitude_unchecked(x) == TRUE
ValidLatitude(x) == x >= -90000 /\ x <= 90000
ValidLongitude(x) == x >= -180000 /\ x <= 180000
ValidRadius(r) == r >= 10 /\ r <= 10000
ValidLimit(l) == l >= 1 /\ l <= 50
\* models.Location
ValidLocation(location) ==
    ValidLatitude(location.latitude) /\ ValidLongitude(location.longitude)

\* The 422 FastAPI answers when a parameter fails its declaration; the
\* handler is not entered.
RequestValidationError(endpoint, latitude, longitude, radius_km, limit) ==
    [NoResponse EXCEPT !.endpoint = endpoint, !.latitude = latitude,
                       !.longitude = longitude, !.radius_km = radius_km,
                       !.limit = limit, !.body = [status |-> 422]]
\* HTTPException(status_code=500) raised from the except of a handler
InternalServerError(endpoint, limit) ==
    [NoResponse EXCEPT !.endpoint = endpoint, !.limit = limit, !.body = [status |-> 500]]

\* GET /api/v1/news/nearby with its parameter declarations
ValidatedNearby(p, latitude, longitude, radius_km, limit) ==
    IF /\ ValidLatitude(latitude) /\ ValidLongitude(longitude)
       /\ ValidRadius(radius_km) /\ ValidLimit(limit)
    THEN NearbyRequest(p, latitude, longitude, radius_km, limit)
    ELSE /\ session[p].pc = "idle"
         /\ startups > 0
         /\ response' = RequestValidationError("nearby", latitude, longitude, radius_km, limit)
         /\ UNCHANGED <<news_articles, user_events, now, provider, REDIS_AVAILABLE,
                        redis, session, background_tasks, cache_writes, startups>>

\* GET /api/v1/news/trending with its parameter declarations
ValidatedTrending(p, latitude, longitude, radius_km, limit) ==
    IF /\ ValidLatitude(latitude) /\ ValidLongitude(longitude)
       /\ ValidRadius(radius_km) /\ ValidLimit(limit)
    THEN TrendingRequest(p, latitude, longitude, radius_km, limit)
    ELSE /\ session[p].pc = "idle"
         /\ startups > 0
         /\ response' = RequestValidationError("trending", latitude, longitude, radius_km, limit)
         /\ UNCHANGED <<news_articles, user_events, now, provider, REDIS_AVAILABLE,
                        redis, session, background_tasks, cache_writes, startups>>

\* A location in the query path: a dict (from the JSON of the LLM) or a
\* pydantic Location object.
LocationDict(latitude, longitude) ==
    [type |-> "dict", latitude |-> latitude, longitude |-> longitude]
LocationObject(latitude, longitude) ==
    [type |-> "Location", latitude |-> latitude, longitude |-> longitude]

TypeError == [raised |-> "TypeError"]
\* obj[key]: a dict is subscriptable, a pydantic model is not
GetItem(obj, key) == IF obj.type = "dict" THEN obj[key] ELSE TypeError

\* ----------------------------------------------------------- query analysis
\* A text of the query path is a sequence of words, or the JSON text of an
\* object; an optional value is None or a record, a float is carried in
\* hundredths.
Str(words) == [words |-> words]
JsonText(data) == [json |-> data]
Float(x) == [float |-> x]
Get(data, key, default) == IF key \in DOMAIN data THEN data[key] ELSE default
\* Python truthiness of an optional text or float
Truthy(x) == x # None /\ x # Str(<<>>) /\ x # Float(0)

\* The words a text holds: for a JSON text its keys and its string values.
Tokens(text) ==
    IF "json" \in DOMAIN text
    THEN LET data == text.json
         IN DOMAIN data
            \cup {data[k] : k \in DOMAIN data \cap {"intent"}}
            \cup UNION {{data[k].words[i] : i \in DOMAIN data[k].words} :
                           k \in DOMAIN data \cap {"search_query", "category", "source"}}
    ELSE {text.words[i] : i \in DOMAIN text.words}
\* str.lower()
Lower(s) == IF s = "TRENDING" THEN "trending" ELSE s
\* "word in query_lower" is a substring test: the keywords found in a token
Substrings(t) ==
    CASE t = "nearby" -> {"near", "nearby"}
      [] t = "score_threshold" -> {"score", "score_threshold"}
      [] OTHER -> {t}

\* pydantic raises when a field fails its declaration
ValidationError == [raised |-> "ValidationError"]
\* models.QueryAnalysis: location is validated into a Location
QueryAnalysis(intent, location, search_query, category, source, score_threshold) ==
    IF location # None /\ ~ValidLocation(location) THEN ValidationError
    ELSE [intent |-> intent,
          location |-> IF location = None THEN None
                       ELSE LocationObject(location.latitude, location.longitude),
          search_query |-> search_query, category |-> category, source |-> source,
          score_threshold |-> score_threshold]

_extract_category(query_lower) ==
    IF "technology" \in query_lower THEN Str(<<"technology">>)
    ELSE IF "sports" \in query_lower THEN Str(<<"sports">>)
    ELSE IF "politics" \in query_lower THEN Str(<<"politics">>)
    ELSE IF "business" \in query_lower THEN Str(<<"business">>)
    ELSE None
_extract_source(query_lower) ==
    IF "cnn" \in query_lower THEN Str(<<"CNN">>)
    ELSE IF "bbc" \in query_lower THEN Str(<<"BBC">>)
    ELSE IF "reuters" \in query_lower THEN Str(<<"Reuters">>)
    ELSE IF "times" \in query_lower THEN Str(<<"The", "New", "York", "Times">>)
    ELSE None

\* LLMService._fallback_query_analysis: the intent of the first keyword list
\* with a word in the text
_fallback_query_analysis(query, user_location) ==
    LET query_lower == UNION {Substrings(Lower(t)) : t \in Tokens(query)}
        intent ==
            IF query_lower \cap {"category", "type", "sports", "technology",
                                 "politics", "business"} # {} THEN "category"
            ELSE IF query_lower \cap {"from", "source", "cnn", "bbc", "reuters",
                                      "times"} # {} THEN "source"
            ELSE IF query_lower \cap {"near", "nearby", "location", "around"} # {}
            THEN "nearby"
            ELSE IF query_lower \cap {"trending", "popular", "viral"} # {} THEN "trending"
            ELSE IF query_lower \cap {"score", "relevance", "important"} # {} THEN "score"
            ELSE "search"
    IN QueryAnalysis(intent, user_location,
                     IF intent = "search" THEN query ELSE None,
                     IF intent = "category" THEN _extract_category(query_lower) ELSE None,
                     IF intent = "source" THEN _extract_source(query_lower) ELSE None,
                     None)

QueryIntent == {"category", "source", "search", "score", "nearby", "trending"}
intent_mapping_default_trending(intent_str) ==
    IF intent_str \in QueryIntent THEN intent_str ELSE "trending"
\* intent_mapping.get(intent_str, QueryIntent.SEARCH)
intent_mapping(intent_str) ==
    IF intent_str \in QueryIntent THEN intent_str ELSE "search"

\* LLMService._parse_query_analysis: result is the text the provider
\* answered.  Without a JSON object in it, or when QueryAnalysis raises, the
\* except branch runs _fallback_query_analysis on result.
_parse_query_analysis(result, user_location) ==
    IF "json" \notin DOMAIN result THEN _fallback_query_analysis(result, user_location)
    ELSE LET data == result.json
             intent_str == Lower(Get(data, "intent", "search"))
             intent == intent_mapping(intent_str)
             location == IF Get(data, "location", None) # None THEN data.location
                         ELSE IF user_location # None
                         THEN LocationDict(user_location.latitude, user_location.longitude)
                         ELSE None
             parsed == QueryAnalysis(intent, location, Get(data, "search_query", None),
                                     Get(data, "category", None), Get(data, "source", None),
                                     Get(data, "score_threshold", None))
         IN IF parsed = ValidationError
            THEN _fallback_query_analysis(result, user_location)
            ELSE parsed

\* The provider call raised.
Raised == [raised |-> "Exception"]

\* LLMService.analyze_query.  result is the outcome of the provider call:
\* a text, Raised, or None when no call is made.  With a provider,
\* _build_query_analysis_prompt subscripts the user's location, a Location
\* object, when one is given: the TypeError is caught by analyze_query.
analyze_query(query, user_location, result) ==
    IF provider # "gemini" THEN _fallback_query_analysis(query, user_location)
    ELSE IF user_location # None /\ GetItem(user_location, "latitude") = TypeError
    THEN _fallback_query_analysis(query, user_location)
    ELSE IF result = Raised THEN _fallback_query_analysis(query, user_location)
    ELSE _parse_query_analysis(result, user_location)

\* The handler process_query awaits, with its arguments; NoCall is "return []".
Call(handler, arguments) == [handler |-> handler, arguments |-> arguments]
NoCall == Call("", [limit |-> 0])
DefaultRadius == 1000                  \* get_nearby_news(radius_km=10.0)
DefaultThreshold == Float(70)          \* score_threshold or 0.7

\* NewsService.process_query
process_query(query_analysis, limit) ==
    CASE query_analysis.intent = "category" ->
            IF Truthy(query_analysis.category)
            THEN Call("get_news_by_category",
                      [category |-> query_analysis.category, limit |-> limit])
            ELSE NoCall
      [] query_analysis.intent = "source" ->
            IF Truthy(query_analysis.source)
            THEN Call("get_news_by_source",
                      [source |-> query_analysis.source, limit |-> limit])
            ELSE NoCall
      [] query_analysis.intent = "score" ->
            Call("get_news_by_score",
                 [threshold |-> IF Truthy(query_analysis.score_threshold)
                                THEN query_analysis.score_threshold
                                ELSE DefaultThreshold,
                  limit |-> limit])
      [] query_analysis.intent = "search" ->
            IF Truthy(query_analysis.search_query)
            THEN Call("search_news",
                      [query |-> query_analysis.search_query, limit |-> limit])
            ELSE NoCall
      [] query_analysis.intent = "nearby" ->
            IF query_analysis.location # None
            THEN LET latitude == GetItem(query_analysis.location, "latitude")
                     longitude == GetItem(query_analysis.location, "longitude")
                 IN IF latitude = TypeError \/ longitude = TypeError THEN TypeError
                    ELSE Call("get_nearby_news",
                              [latitude |-> latitude, longitude |-> longitude,
                               radius_km |-> DefaultRadius, limit |-> limit])
            ELSE NoCall
      [] OTHER ->
            Call("search_news",
                 [query |-> IF Truthy(query_analysis.search_query)
                            THEN query_analysis.search_query ELSE Str(<<"news">>),
                  limit |-> limit])

\* POST /api/v1/news/query.  query and user_location are the fields of the
\* request body, result the outcome of the provider call of analyze_query,
\* selected the rows the query of a text, category, source or score handler
\* matches.  The log of the response keeps the request, the analysis and the
\* call process_query made.
query_news(p, query, user_location, result, selected, limit) ==
    /\ session[p].pc = "idle"
    /\ startups > 0
    /\ PendingTasks(ArticleIds) < MaxPendingTasks
    /\ selected \subseteq 1..Len(news_articles)
    /\ Cardinality(selected) <= limit
    /\ IF user_location # None /\ ~ValidLocation(user_location)
       THEN /\ result = None /\ selected = {}
            /\ response' = RequestValidationError("query", user_location.latitude,
                                user_location.longitude, 0, limit)
            /\ UNCHANGED <<news_articles, session, redis, cache_writes, background_tasks>>
       ELSE /\ result = None <=> (provider # "gemini" \/ user_location # None)
            /\ LET query_analysis == analyze_query(query, user_location, result)
                   call == process_query(query_analysis, limit)
                   log == [query |-> query, user_location |-> user_location,
                           result |-> result, analysis |-> query_analysis,
                           call |-> call]
               IN IF call = TypeError
                  THEN /\ selected = {}
                       /\ response' = [InternalServerError("query", limit)
                                          EXCEPT !.log = log]
                       /\ UNCHANGED <<news_articles, session, redis, cache_writes,
                                      background_tasks>>
                  ELSE IF call.handler = "get_nearby_news"
                  THEN /\ selected = {}
                       /\ Continue(p, news_articles,
                              [Request("query", call.arguments.latitude,
                                   call.arguments.longitude, call.arguments.radius_km,
                                   limit,
                                   get_nearby_news(news_articles, call.arguments.latitude,
                                       call.arguments.longitude,
                                       call.arguments.radius_km, limit), "")
                                  EXCEPT !.log = log])
                  ELSE /\ call = NoCall => selected = {}
                       /\ Continue(p, news_articles,
                              [Request("query", 0, 0, 0, limit, RowsOf(selected, 1), "")
                                  EXCEPT !.log = log])
    /\ UNCHANGED <<user_events, now, provider, REDIS_AVAILABLE, startups>>

\* redis_client.keys("trending:*"): the glob matches the names that begin with
\* "trending:".  A key written by set_trending_cache is a hexdigest, 32
\* characters out of 0-9a-f, so it never begins with the letter t.
GlobMatch(name, pattern) ==
    IF "md5" \in DOMAIN name THEN FALSE ELSE name[1] = pattern

\* clear_trending_cache(pattern="trending:*"): the keyspace it leaves and the
\* value it returns; ok = the Redis calls did not raise
clear_trending_cache(ok, pattern) ==
    IF ~REDIS_AVAILABLE \/ ~ok THEN [redis |-> redis, success |-> FALSE]
    ELSE LET keys == {e.key : e \in {x \in redis : GlobMatch(x.key, pattern)}}
         IN [redis |-> {e \in redis : e.key \notin keys}, success |-> TRUE]

\* DELETE /api/v1/cache/clear
clear_cache ==
    /\ startups > 0
    /\ \E ok \in (IF REDIS_AVAILABLE THEN BOOLEAN ELSE {FALSE}) :
          LET r == clear_trending_cache(ok, "trending")
          IN /\ redis' = r.redis
             /\ response' = [NoResponse EXCEPT
                    !.endpoint = "clear",
                    !.body = [message |-> IF r.success THEN "Cache cleared successfully"
                                          ELSE "Cache clear failed"]]
    /\ UNCHANGED <<news_articles, user_events, now, provider, REDIS_AVAILABLE,
                   session, background_tasks, cache_writes, startups>>

\* ---------------------------------------------------------------- startup
populate_database_from_json_unguarded(table) ==
    table \o [i \in 1..Len(NewsData) |-> NewsArticleDB(NewsData[i])]
populate_database_from_json(table) ==
    IF Len(table) > 0 THEN table
    ELSE [i \in 1..Len(NewsData) |-> NewsArticleDB(NewsData[i])]

\* One row of generate_sample_user_events: a random article, event type,
\* offset from the article and age.
GenOffsets == {0, 300}
GenAges == {0, 25 * TicksPerHour}
SampleEvent(article, event_type, lat_offset, age) ==
    [article_id |-> article.id, event_type |-> event_type,
     latitude |-> article.latitude + lat_offset, longitude |-> article.longitude,
     timestamp |-> now - age]

\* The rows one pass of the generating loop can add.
SampleRows(table) ==
    {SampleEvent(table[i], t, o, a) :
        <<i, t, o, a>> \in (1..Len(table)) \X EventTypes \X GenOffsets \X GenAges}

\* generate_sample_user_events(num_events): rows holds the num_events random
\* draws of the loop; nothing is added when there is no article.
generate_sample_user_events(table, events, rows) ==
    IF Len(table) = 0 THEN events ELSE events \o rows

\* main.lifespan, entered once the previous run has shut down.  loaded = the
\* dataset could be read: when populate_database_from_json raises, the
\* except of lifespan swallows it and generate_sample_user_events is skipped.
lifespan(rows) ==
    /\ startups < MaxStartups
    /\ \A p \in Procs : session[p].pc = "idle"
    /\ \A id \in ArticleIds : background_tasks[id] = 0
    /\ \E loaded \in (IF Len(news_articles) = 0 THEN BOOLEAN ELSE {TRUE}) :
          IF loaded
          THEN LET table == populate_database_from_json(news_articles)
               IN /\ rows \in [1..SampleEventCount -> SampleRows(table)]
                  /\ news_articles' = table
                  /\ user_events' = generate_sample_user_events(table, user_events, rows)
          ELSE UNCHANGED <<news_articles, user_events>>
    /\ startups' = startups + 1
    /\ UNCHANGED <<now, provider, REDIS_AVAILABLE, redis, session, background_tasks,
                   response, cache_writes>>

\* Time passes; Redis drops the keys whose time to live has run out.
Tick ==
    /\ now < MaxNow
    /\ now' = now + 1
    /\ redis' = {e \in redis : now' < e.expire_at}
    /\ UNCHANGED <<news_articles, user_events, provider, REDIS_AVAILABLE, session,
                   background_tasks, response, cache_writes, startups>>

\* ---------------------------------------------------------- specifications
Init ==
    /\ news_articles = <<>>
    /\ user_events = <<>>
    /\ now = 0
    /\ provider \in {"none", "gemini"}
    /\ REDIS_AVAILABLE \in BOOLEAN
    /\ redis = {}
    /\ session = [p \in Procs |-> Idle]
    /\ background_tasks = NoBackgroundTasks
    /\ response = NoResponse
    /\ cache_writes = {}
    /\ startups = 0

Requests(p) ==
    \E o \in Origins, r \in Radii, l \in Limits :
        \/ NearbyRequest(p, o.latitude, o.longitude, r, l)
        \/ TrendingRequest(p, o.latitude, o.longitude, r, l)

Next ==
    \/ \E rows \in [1..SampleEventCount ->
                      SampleRows(populate_database_from_json(news_articles))] :
          lifespan(rows)
    \/ \E p \in Procs : Requests(p)
    \/ \E p \in Procs, l \in Limits, s \in SUBSET (1..Len(NewsData)) : QueryRequest(p, s, l)
    \/ \E p \in Procs, s \in LLMTexts \cup {Truncate(NewsData[i].description) : i \in 1..Len(NewsData)} :
          SummaryReturned(p, s)
    \/ \E id \in ArticleIds, s \in LLMTexts \cup {Truncate(NewsData[i].description) : i \in 1..Len(NewsData)} :
          _generate_article_summary(id, s)
    \/ Tick

Spec == Init /\ [][Next]_vars

\* A store drawn from the rows the tables can hold, its summaries populated by
\* earlier requests, served by a deployment without summarizer provider and
\* without Redis, so that every request runs to its response without awaiting.
EventShapes == <<
    [event_type |-> "share", latitude |-> 37792, longitude |-> -122419, age |-> TicksPerHour],
    [event_type |-> "view", latitude |-> 37774, longitude |-> -122419, age |-> 0],
    [event_type |-> "click", latitude |-> 38074, longitude |-> -122419, age |-> 23 * TicksPerHour],
    [event_type |-> "like", latitude |-> 37792, longitude |-> -122419, age |-> DecayTicks],
    [event_type |-> "comment", latitude |-> 37824, longitude |-> -122419, age |-> -TicksPerHour],
    [event_type |-> "view", latitude |-> 37774, longitude |-> -121819, age |-> TicksPerHour],
    [event_type |-> "click", latitude |-> 37774, longitude |-> -122419, age |-> DecayTicks + 1] >>

DrawnEvent(k) ==
    LET a == NewsData[((k - 1) \div Len(EventShapes)) + 1]
        s == EventShapes[((k - 1) % Len(EventShapes)) + 1]
    IN [article_id |-> a.id, event_type |-> s.event_type, latitude |-> s.latitude,
        longitude |-> s.longitude, timestamp |-> 0 - s.age]

InitGeo ==
    /\ news_articles = [i \in 1..Len(NewsData) |->
                            [NewsArticleDB(NewsData[i]) EXCEPT
                                !.llm_summary = Truncate(NewsData[i].description)]]
    /\ \E n \in 0..MaxEvents :
          \E f \in [1..n -> 1..(Len(NewsData) * Len(EventShapes))] :
              /\ \A i \in 1..(n - 1) : f[i] <= f[i + 1]
              /\ user_events = [i \in 1..n |-> DrawnEvent(f[i])]
    /\ now = 0
    /\ provider = "none"
    /\ REDIS_AVAILABLE = FALSE
    /\ redis = {}
    /\ session = [p \in Procs |-> Idle]
    /\ background_tasks = NoBackgroundTasks
    /\ response = NoResponse
    /\ cache_writes = {}
    /\ startups = 1

NextGeo == Requests(1)

SpecGeo == InitGeo /\ [][NextGeo]_vars

\* The summary race: the dataset loaded, no summary stored yet, a provider
\* whose calls are awaited, no Redis.
InitSummary ==
    /\ news_articles = [i \in 1..Len(NewsData) |-> NewsArticleDB(NewsData[i])]
    /\ user_events = <<>>
    /\ now = 0
    /\ provider = "gemini"
    /\ REDIS_AVAILABLE = FALSE
    /\ redis = {}
    /\ session = [p \in Procs |-> Idle]
    /\ background_tasks = NoBackgroundTasks
    /\ response = NoResponse
    /\ cache_writes = {}
    /\ startups = 1

SummaryTexts == LLMTexts \cup {Truncate(NewsData[i].description) : i \in 1..Len(NewsData)}

NextSummary ==
    \/ \E p \in Procs, l \in Limits, s \in SUBSET (1..Len(NewsData)) : QueryRequest(p, s, l)
    \/ \E p \in Procs, s \in SummaryTexts : SummaryReturned(p, s)
    \/ \E id \in ArticleIds, s \in SummaryTexts : _generate_article_summary(id, s)

SpecSummary == InitSummary /\ [][NextSummary]_vars

\* The trending cache: a loaded store with summaries and a few events, a
\* working Redis, time passing.
InitCache ==
    /\ news_articles = [i \in 1..Len(NewsData) |->
                            [NewsArticleDB(NewsData[i]) EXCEPT
                                !.llm_summary = Truncate(NewsData[i].description)]]
    /\ \E k \in {1, 8, 15} : user_events = <<DrawnEvent(k)>>
    /\ now = 0
    /\ provider = "none"
    /\ REDIS_AVAILABLE = TRUE
    /\ redis = {}
    /\ session = [p \in Procs |-> Idle]
    /\ background_tasks = NoBackgroundTasks
    /\ response = NoResponse
    /\ cache_writes = {}
    /\ startups = 1

NextCache ==
    \/ \E o \in Origins, l \in Limits :
          TrendingRequest(1, o.latitude, o.longitude, 1000, l)
    \/ Tick

SpecCache == InitCache /\ [][NextCache]_vars

\* The cache keys: a loaded store with summaries and one event, Redis present
\* or not, requests from origins and radii that round to the same key and
\* from origins either side of the equator, and the cache-clear endpoint.
KeyRequests ==
    {[latitude |-> 37774, longitude |-> -122419, radius_km |-> 1000, limit |-> l] : l \in Limits}
    \cup {[latitude |-> 37772, longitude |-> -122421, radius_km |-> 1000, limit |-> l] : l \in Limits}
    \cup {[latitude |-> 37774, longitude |-> -122419, radius_km |-> 1004, limit |-> 1],
          [latitude |-> 4, longitude |-> -122419, radius_km |-> 1000, limit |-> 1],
          [latitude |-> -4, longitude |-> -122419, radius_km |-> 1000, limit |-> 1]}

InitKeys ==
    /\ news_articles = [i \in 1..Len(NewsData) |->
                            [NewsArticleDB(NewsData[i]) EXCEPT
                                !.llm_summary = Truncate(NewsData[i].description)]]
    /\ user_events = <<DrawnEvent(1)>>
    /\ now = 0
    /\ provider = "none"
    /\ REDIS_AVAILABLE \in BOOLEAN
    /\ redis = {}
    /\ session = [p \in Procs |-> Idle]
    /\ background_tasks = NoBackgroundTasks
    /\ response = NoResponse
    /\ cache_writes = {}
    /\ startups = 1

NextKeys ==
    \/ \E q \in KeyRequests :
          TrendingRequest(1, q.latitude, q.longitude, q.radius_km, q.limit)
    \/ clear_cache

SpecKeys == InitKeys /\ [][NextKeys]_vars

\* The fallback summary: the dataset loaded, no summary stored yet, with no
\* provider configured or with a provider whose calls may raise; one request
\* at a time.
InitFallback ==
    /\ news_articles = [i \in 1..Len(NewsData) |-> NewsArticleDB(NewsData[i])]
    /\ user_events = <<>>
    /\ now = 0
    /\ provider \in {"none", "gemini"}
    /\ REDIS_AVAILABLE = FALSE
    /\ redis = {}
    /\ session = [p \in Procs |-> Idle]
    /\ background_tasks = NoBackgroundTasks
    /\ response = NoResponse
    /\ cache_writes = {}
    /\ startups = 1

NextFallback ==
    \/ \E o \in Origins, r \in Radii, l \in Limits :
          NearbyRequest(1, o.latitude, o.longitude, r, l)
    \/ \E l \in Limits, s \in SUBSET (1..Len(NewsData)) : QueryRequest(1, s, l)
    \/ \E s \in SummaryTexts : SummaryReturned(1, s)
    \/ \E id \in ArticleIds, s \in SummaryTexts : _generate_article_summary(id, s)

SpecFallback == InitFallback /\ [][NextFallback]_vars

\* Startups and the operations between them: an empty database, no provider,
\* a working Redis, one request at a time.  The rows a startup generates are
\* views of the third article at its own place, at the time of the startup.
InitStartup ==
    /\ news_articles = <<>>
    /\ user_events = <<>>
    /\ now = 0
    /\ provider = "none"
    /\ REDIS_AVAILABLE = TRUE
    /\ redis = {}
    /\ session = [p \in Procs |-> Idle]
    /\ background_tasks = NoBackgroundTasks
    /\ response = NoResponse
    /\ cache_writes = {}
    /\ startups = 0

NextStartup ==
    \/ lifespan([n \in 1..SampleEventCount |-> SampleEvent(NewsData[3], "view", 0, 0)])
    \/ \E o \in Origins, l \in Limits :
          \/ NearbyRequest(1, o.latitude, o.longitude, 1000, l)
          \/ TrendingRequest(1, o.latitude, o.longitude, 1000, l)
    \/ \E l \in Limits, s \in SUBSET (1..Len(NewsData)) : QueryRequest(1, s, l)
    \/ \E id \in ArticleIds, s \in SummaryTexts : _generate_article_summary(id, s)
    \/ clear_cache

SpecStartup == InitStartup /\ [][NextStartup]_vars

\* Concurrent trending requests: a working Redis and a provider whose calls
\* are awaited, the nearest article without stored summary, so that a request
\* is suspended between its cache lookup and its cache set.
RaceRequests ==
    {[latitude |-> 37774, longitude |-> -122419, radius_km |-> 1000, limit |-> l] : l \in Limits}
    \cup {[latitude |-> 37772, longitude |-> -122421, radius_km |-> 1000, limit |-> 1]}

InitRace ==
    /\ news_articles = [i \in 1..Len(NewsData) |->
                            [NewsArticleDB(NewsData[i]) EXCEPT
                                !.llm_summary = IF NewsData[i].description = EmptyStr
                                                THEN NULL
                                                ELSE Truncate(NewsData[i].description)]]
    /\ user_events = <<DrawnEvent(1)>>
    /\ now = 0
    /\ provider = "gemini"
    /\ REDIS_AVAILABLE = TRUE
    /\ redis = {}
    /\ session = [p \in Procs |-> Idle]
    /\ background_tasks = NoBackgroundTasks
    /\ response = NoResponse
    /\ cache_writes = {}
    /\ startups = 1

NextRace ==
    \/ \E p \in Procs, q \in RaceRequests :
          TrendingRequest(p, q.latitude, q.longitude, q.radius_km, q.limit)
    \/ \E p \in Procs, s \in SummaryTexts : SummaryReturned(p, s)

SpecRace == InitRace /\ [][NextRace]_vars

\* The boundary: requests with parameters inside and outside their declared
\* ranges, against a loaded store whose summaries are all present.
Latitudes == {37774, 91000}
Longitudes == {-122419, 181000}
RadiusInputs == {-100, 0, 9, 10, 1000, 10001}
UserLocations ==
    {None} \cup {LocationObject(lat, lon) : lat \in Latitudes, lon \in Longitudes}
LLMLocations ==
    {None} \cup {LocationDict(lat, lon) : lat \in Latitudes, lon \in Longitudes}
\* The provider answers "nearby" with a location or with null.
NearbyResults == {JsonText([intent |-> "nearby", location |-> g]) : g \in LLMLocations}

InitValidation ==
    /\ news_articles = [i \in 1..Len(NewsData) |->
                            [NewsArticleDB(NewsData[i]) EXCEPT
                                !.llm_summary = IF NewsData[i].description = EmptyStr
                                                THEN CHOOSE t \in LLMTexts : TRUE
                                                ELSE Truncate(NewsData[i].description)]]
    /\ user_events = <<DrawnEvent(1)>>
    /\ now = 0
    /\ provider \in {"none", "gemini"}
    /\ REDIS_AVAILABLE = FALSE
    /\ redis = {}
    /\ session = [p \in Procs |-> Idle]
    /\ background_tasks = NoBackgroundTasks
    /\ response = NoResponse
    /\ cache_writes = {}
    /\ startups = 1

NextValidation ==
    \/ \E lat \in Latitudes, lon \in Longitudes, r \in RadiusInputs, l \in Limits :
          \/ ValidatedNearby(1, lat, lon, r, l)
          \/ ValidatedTrending(1, lat, lon, r, l)
    \/ \E u \in UserLocations, result \in {None} \cup NearbyResults, l \in Limits :
          query_news(1, Str(<<"news", "near", "me">>), u, result, {}, l)

SpecValidation == InitValidation /\ [][NextValidation]_vars

\* The natural-language query path: requests with and without location,
\* no provider or a provider that raises, answers without JSON, or answers a
\* JSON object; the store loaded, its summaries all present.
UserQueries ==
    {Str(<<"elon", "musk">>), Str(<<"sports", "news">>), Str(<<"news", "from", "bbc">>),
     Str(<<"news", "near", "me">>), Str(<<"what", "is", "trending">>),
     Str(<<"important", "news">>)}
QueryLocations == {None, LocationObject(37774, -122419), LocationObject(91000, -122419)}
LLMResults ==
    {Raised,
     Str(<<"sorry", "i", "only", "know", "sports">>),
     JsonText([intent |-> "trending"]),
     JsonText([intent |-> "TRENDING", search_query |-> Str(<<"viral", "videos">>)]),
     JsonText([intent |-> "weather"]),
     JsonText([intent |-> "weather", search_query |-> Str(<<"rain">>)]),
     JsonText([search_query |-> Str(<<"elon", "musk">>)]),
     JsonText([intent |-> "nearby"]),
     JsonText([intent |-> "nearby", location |-> LocationDict(37774, -122419)]),
     JsonText([intent |-> "search", search_query |-> Str(<<"elon", "musk">>),
               location |-> LocationDict(91000, -122419)]),
     JsonText([intent |-> "category", category |-> Str(<<"sports">>)]),
     JsonText([intent |-> "source", source |-> Str(<<"BBC">>)]),
     JsonText([intent |-> "score", score_threshold |-> Float(90)])}

\* The rows a text, category, source or score query matches.
Selections == {{}, {1, 3}}

InitQuery ==
    /\ news_articles = [i \in 1..Len(NewsData) |->
                            [NewsArticleDB(NewsData[i]) EXCEPT
                                !.llm_summary = IF NewsData[i].description = EmptyStr
                                                THEN CHOOSE t \in LLMTexts : TRUE
                                                ELSE Truncate(NewsData[i].description)]]
    /\ user_events = <<DrawnEvent(1)>>
    /\ now = 0
    /\ provider \in {"none", "gemini"}
    /\ REDIS_AVAILABLE = FALSE
    /\ redis = {}
    /\ session = [p \in Procs |-> Idle]
    /\ background_tasks = NoBackgroundTasks
    /\ response = NoResponse
    /\ cache_writes = {}
    /\ startups = 1

NextQuery ==
    \E query \in UserQueries, u \in QueryLocations, result \in {None} \cup LLMResults,
       selected \in Selections, l \in Limits :
        query_news(1, query, u, result, selected, l)

SpecQuery == InitQuery /\ [][NextQuery]_vars

\* The bounding box against the radius: events of the last hour in a corner
\* of the box (0.5 degree north and east, 70.8 km away), 0.6 degree east on
\* the latitude of the origin (outside the box, 52.7 km away) and at the
\* origin; requests with radius 10 km and 60 km.
BoxShapes == <<
    [event_type |-> "click", latitude |-> 38274, longitude |-> -121919, age |-> TicksPerHour],
    [event_type |-> "view", latitude |-> 37774, longitude |-> -121819, age |-> TicksPerHour],
    [event_type |-> "view", latitude |-> 37774, longitude |-> -122419, age |-> 0] >>
BoxEvent(k) ==
    LET a == NewsData[((k - 1) \div Len(BoxShapes)) + 1]
        s == BoxShapes[((k - 1) % Len(BoxShapes)) + 1]
    IN [article_id |-> a.id, event_type |-> s.event_type, latitude |-> s.latitude,
        longitude |-> s.longitude, timestamp |-> 0 - s.age]
BoxRadii == {1000, 6000}

InitBox ==
    /\ news_articles = [i \in 1..Len(NewsData) |->
                            [NewsArticleDB(NewsData[i]) EXCEPT
                                !.llm_summary = Truncate(NewsData[i].description)]]
    /\ \E n \in 0..MaxEvents :
          \E f \in [1..n -> 1..(Len(NewsData) * Len(BoxShapes))] :
              /\ \A i \in 1..(n - 1) : f[i] <= f[i + 1]
              /\ user_events = [i \in 1..n |-> BoxEvent(f[i])]
    /\ now = 0
    /\ provider = "none"
    /\ REDIS_AVAILABLE = FALSE
    /\ redis = {}
    /\ session = [p \in Procs |-> Idle]
    /\ background_tasks = NoBackgroundTasks
    /\ response = NoResponse
    /\ cache_writes = {}
    /\ startups = 1

NextBox ==
    \E o \in Origins, r \in BoxRadii, l \in Limits :
        TrendingRequest(1, o.latitude, o.longitude, r, l)

SpecBox == InitBox /\ [][NextBox]_vars

\* =================================================================== claims
\* Vocabulary of the claims, stated on the last response.
Rows == 1..Len(news_articles)
RowOf(id) == CHOOSE i \in Rows : news_articles[i].id = id
DistanceTo(i) ==
    _calculate_distance(response.latitude, response.longitude,
                        news_articles[i].latitude, news_articles[i].longitude)
WithinRadius == {i \in Rows : DistanceTo(i) <= response.radius_km}
Returned == {RowOf(response.body.articles[j].id) : j \in 1..Len(response.body.articles)}
IsNearby == response.endpoint = "nearby"
IsTrending == response.endpoint = "trending" /\ response.cache # "hit"
ScoreOf(i) ==
    _calculate_trending_score(user_events, response.log.current_time, news_articles[i].id,
                              response.latitude, response.longitude, response.radius_km)

\* The events the claims count for row i: same article, not older than 24
\* hours, within 0.5 degree of the origin in latitude and in longitude.
ClaimedEvents(i) ==
    {n \in 1..Len(user_events) :
        /\ user_events[n].article_id = news_articles[i].id
        /\ (response.log.current_time - user_events[n].timestamp) <= 24 * TicksPerHour
        /\ Abs(user_events[n].latitude - response.latitude) <= 500
        /\ Abs(user_events[n].longitude - response.longitude) <= 500}
ClaimedWeight(event_type) ==
    IF event_type = "click" THEN 2
    ELSE IF event_type = "share" THEN 5
    ELSE IF event_type = "like" THEN 3
    ELSE 1
\* weight * max(0.1, 1 - hours_ago/24) * max(0.1, 1 - distance/radius), in
\* units of 1/ScoreScale(radius)
ClaimedTerm(n) ==
    LET e == user_events[n]
        ticks_ago == response.log.current_time - e.timestamp
        distance == _calculate_distance(response.latitude, response.longitude,
                                        e.latitude, e.longitude)
        r == response.radius_km
    IN ClaimedWeight(e.event_type)
           * Max(RecencyScale \div 10,
                 RecencyScale - (RecencyScale * ticks_ago) \div (24 * TicksPerHour))
           * Max(DistanceScale(r) \div 10, DistanceScale(r) - 10 * distance)
RECURSIVE ClaimedSum(_)
ClaimedSum(ns) ==
    IF ns = {} THEN 0
    ELSE LET n == CHOOSE x \in ns : TRUE IN ClaimedTerm(n) + ClaimedSum(ns \ {n})

\* C1: a trending response has as many scores as articles, at most limit of
\* them, the scores in non-increasing order, each the score of its article
\* and each positive.
C1_RankerOutput ==
    IsTrending =>
        LET articles == response.body.articles
            trending_scores == response.body.trending_scores
        IN /\ Len(articles) = Len(trending_scores)
           /\ Len(articles) <= response.limit
           /\ \A j \in 1..(Len(trending_scores) - 1) :
                  trending_scores[j] >= trending_scores[j + 1]
           /\ \A j \in 1..Len(trending_scores) :
                  /\ trending_scores[j] > 0
                  /\ trending_scores[j] = ScoreOf(RowOf(articles[j].id))
C1_Witness ==
    /\ IsTrending
    /\ Len(response.body.trending_scores) = 2
    /\ response.body.trending_scores[1] > response.body.trending_scores[2]
    /\ RowOf(response.body.articles[1].id) > RowOf(response.body.articles[2].id)

\* C2: total_count of a trending response is the number of articles within
\* radius_km of the origin whose trending score is positive.
C2_TotalCountAllCandidates ==
    IsTrending =>
        response.body.total_count = Cardinality({i \in WithinRadius : ScoreOf(i) > 0})

\* C3: a trending response holds the highest-scoring articles among all
\* articles within radius_km: no article within the radius that is left out
\* scores higher than one that is in, and none with a positive score is left
\* out while the output has fewer than limit entries.
C3_TopAmongAllInRadius ==
    IsTrending =>
        \A i \in WithinRadius \ Returned :
            /\ \A k \in Returned : ScoreOf(i) <= ScoreOf(k)
            /\ ScoreOf(i) > 0 => Len(response.body.articles) >= response.limit

\* C4: the score _calculate_trending_score returns for an article is the sum
\* over exactly the article's events of the last 24 hours inside the 0.5
\* degree box of weight * max(0.1, 1 - hours_ago/24) * max(0.1, 1 -
\* distance/radius), weights view 1, click 2, share 5, like 3, any other 1;
\* one share at 2 km, one hour ago, radius 10 km scores 5 * (23/24) * 0.8.
C4_ScoreFormula ==
    IsTrending =>
        \A j \in 1..Len(response.log.nearby) :
            LET i == RowOf(response.log.nearby[j])
                ns == ClaimedEvents(i)
            IN /\ response.log.scores[j] = ClaimedSum(ns)
               /\ (/\ response.radius_km = 1000
                   /\ Cardinality(ns) = 1
                   /\ \A n \in ns :
                        /\ user_events[n].event_type = "share"
                        /\ response.log.current_time - user_events[n].timestamp = TicksPerHour
                        /\ _calculate_distance(response.latitude, response.longitude,
                               user_events[n].latitude, user_events[n].longitude) = 200)
                  => response.log.scores[j] = (5 * 23 * 8) * (ScoreScale(1000) \div 240)
C4_Witness ==
    /\ IsTrending
    /\ response.radius_km = 1000
    /\ \E j \in 1..Len(response.log.nearby) :
          /\ response.log.scores[j] > (5 * 23 * 8) * (ScoreScale(1000) \div 240)
          /\ \E n, m \in ClaimedEvents(RowOf(response.log.nearby[j])) :
                /\ user_events[n].event_type = "share"
                /\ user_events[m].event_type = "comment"

\* C5: for every event that contributes to a trending score, recency_factor
\* and distance_factor each lie in [0.1, 1.0].
C5_FactorsClamped ==
    IsTrending =>
        \A j \in 1..Len(response.log.nearby) :
            LET selected == recent_events(user_events, 1, response.log.nearby[j],
                                response.latitude, response.longitude,
                                response.log.current_time - DecayTicks)
            IN \A n \in 1..Len(selected) :
                  /\ recency_factor(selected[n], response.log.current_time) >= RecencyScale \div 10
                  /\ recency_factor(selected[n], response.log.current_time) <= RecencyScale
                  /\ distance_factor(selected[n], response.latitude, response.longitude,
                                     response.radius_km) >= DistanceScale(response.radius_km) \div 10
                  /\ distance_factor(selected[n], response.latitude, response.longitude,
                                     response.radius_km) <= DistanceScale(response.radius_km)

\* C6: a trending score is never negative; an article without an event in
\* the 24 hour window and the box scores 0 and is not among the articles of
\* a trending response.
C6_ZeroScoreExcluded ==
    IsTrending =>
        /\ \A j \in 1..Len(response.log.scores) :
              /\ response.log.scores[j] >= 0
              /\ ClaimedEvents(RowOf(response.log.nearby[j])) = {}
                    => response.log.scores[j] = 0
        /\ \A i \in Rows : ClaimedEvents(i) = {} => i \notin Returned
C6_Witness ==
    /\ IsTrending
    /\ Len(response.body.articles) > 0
    /\ \E j \in 1..Len(response.log.nearby) :
          ClaimedEvents(RowOf(response.log.nearby[j])) = {}

\* C7 as stated: in a nearby response every returned article is within
\* radius_km and every article not returned is farther than radius_km.
C7_ExactGeoFilter ==
    IsNearby =>
        /\ \A i \in Returned : DistanceTo(i) <= response.radius_km
        /\ \A i \in Rows \ Returned : DistanceTo(i) > response.radius_km
\* C7 amended: every returned article is within radius_km, and an article
\* not returned is farther than radius_km unless limit articles are returned.
C7_GeoFilterUpToLimit ==
    IsNearby =>
        /\ \A i \in Returned : DistanceTo(i) <= response.radius_km
        /\ \A i \in Rows \ Returned :
              DistanceTo(i) > response.radius_km
                  \/ Len(response.body.articles) = response.limit
C7_Witness ==
    /\ IsNearby
    /\ Len(response.body.articles) = response.limit
    /\ \E i \in Rows \ Returned : DistanceTo(i) <= response.radius_km
    /\ \E i \in Rows : DistanceTo(i) > response.radius_km

\* C8: a nearby response is ordered by non-decreasing distance, has at most
\* limit entries, and an article within the radius is omitted only when
\* limit entries are returned and it is at least as far as each of them.
C8_NearestFirst ==
    IsNearby =>
        LET articles == response.body.articles
        IN /\ Len(articles) <= response.limit
           /\ Cardinality(Returned) = Len(articles)
           /\ \A j \in 1..(Len(articles) - 1) :
                  DistanceTo(RowOf(articles[j].id)) <= DistanceTo(RowOf(articles[j + 1].id))
           /\ \A i \in WithinRadius \ Returned :
                  /\ Len(articles) = response.limit
                  /\ \A k \in Returned : DistanceTo(k) <= DistanceTo(i)
C8_Witness ==
    /\ IsNearby
    /\ Len(response.body.articles) = 2
    /\ WithinRadius \ Returned # {}
    /\ RowOf(response.body.articles[1].id) > RowOf(response.body.articles[2].id)

\* C9: once the stored llm_summary of an article is non-empty, no step of a
\* request or of a background task changes it.
C9_SummaryWrittenOnce ==
    [][\A i \in 1..Len(news_articles) :
          ~Falsy(news_articles[i].llm_summary)
              => news_articles'[i].llm_summary = news_articles[i].llm_summary]_vars

\* C10: with a working cache, a trending request that comes at the time of
\* the last set_trending_cache of its parameters is answered with the data
\* that was set, and one that comes 300 seconds or more after it finds
\* nothing in the cache and computes its response.
LookupOutcome(p) ==
    IF session'[p].pc = "await" THEN session'[p].cache ELSE response'.cache
C10_CacheRoundTrip ==
    [][\A w \in cache_writes, p \in Procs :
          (/\ now' = now
           /\ now = w.at \/ (now - w.at) * SecondsPerTick >= 300
           /\ \/ session'[p].pc = "await"
              \/ /\ response'.endpoint = "trending"
                 /\ response'.limit = w.limit
                 /\ response'.radius_km = w.radius_km
           /\ TrendingRequest(p, w.latitude, w.longitude, w.radius_km, w.limit)
           /\ LookupOutcome(p) \in {"hit", "miss"})
          => /\ now = w.at
                  => /\ LookupOutcome(p) = "hit"
                     /\ response'.body = w.data
                     /\ UNCHANGED <<news_articles, redis>>
             /\ (now - w.at) * SecondsPerTick >= 300
                  => /\ LookupOutcome(p) = "miss"
                     /\ response'.log # <<>>
                     /\ response'.log.current_time = now]_vars
C10_Witness ==
    /\ response.endpoint = "trending"
    /\ response.cache = "hit"
    /\ Len(response.body.articles) > 0
    /\ now > 0
    /\ \E w \in cache_writes :
          /\ w.latitude = response.latitude /\ w.longitude = response.longitude
          /\ w.radius_km = response.radius_km /\ w.limit = response.limit
          /\ w.at = now /\ w.data = response.body

\* The tuple a trending request is cached under, as numbers: latitude and
\* longitude rounded to 2 decimals, radius to 1 decimal, and the limit.
RoundedTuple(q) ==
    <<Round(q.latitude, 10), Round(q.longitude, 10), Round(q.radius_km, 10), q.limit>>
KeyOf(q) == _generate_cache_key(q.latitude, q.longitude, q.radius_km, q.limit)

\* C11: the request of the last trending response and a request whose
\* response is in the cache have the same cache key exactly when their
\* rounded tuples are equal, and so have any two requests whose responses
\* are in the cache; a response served from the cache was stored by a
\* request with the tuple of the request it is served to.
C11_KeyIffTuple ==
    /\ \A w1 \in cache_writes, w2 \in cache_writes :
          (w1.key = w2.key) <=> (RoundedTuple(w1) = RoundedTuple(w2))
    /\ response.endpoint = "trending"
          => /\ \A w \in cache_writes :
                   (KeyOf(response) = w.key) <=> (RoundedTuple(response) = RoundedTuple(w))
             /\ response.cache = "hit"
                   => \E w \in cache_writes :
                         /\ w.data = response.body
                         /\ RoundedTuple(w) = RoundedTuple(response)

\* C12: a trending response carries the latitude, longitude and radius_km
\* of the request it answers, whether computed or served from the cache.
C12_EchoesQuery ==
    response.endpoint = "trending"
        => /\ response.body.location.latitude = response.latitude
           /\ response.body.location.longitude = response.longitude
           /\ response.body.radius_km = response.radius_km

\* What the trending endpoint computes for request q on a cache miss.
FreshTrending(q) ==
    LET rows == get_nearby_news(news_articles, q.latitude, q.longitude,
                                q.radius_km, q.limit * 2)
    IN get_trending_news([j \in 1..Len(rows) |->
                             NewsArticle(news_articles[rows[j]],
                                         news_articles[rows[j]].llm_summary)],
                         user_events, now, q.latitude, q.longitude, q.radius_km, q.limit)

\* C13: a trending request that finds Redis unavailable, or whose cache get
\* raises, or that misses, is answered with the response computed for it,
\* whether or not its cache set succeeds; without Redis nothing is stored.
C13_CacheAdvisory ==
    [][\A q \in KeyRequests, p \in Procs :
          (/\ response'.endpoint = "trending"
           /\ response'.cache \in {"off", "error", "miss"}
           /\ response'.latitude = q.latitude /\ response'.longitude = q.longitude
           /\ response'.radius_km = q.radius_km /\ response'.limit = q.limit
           /\ TrendingRequest(p, q.latitude, q.longitude, q.radius_km, q.limit))
          => /\ response'.body = FreshTrending(q)
             /\ get_trending_cache(FALSE, q.latitude, q.longitude, q.radius_km, q.limit) = None
             /\ set_trending_cache(FALSE, q.latitude, q.longitude, q.radius_km, q.limit,
                                   response'.body) = redis
             /\ ~REDIS_AVAILABLE => response'.cache = "off" /\ redis' = redis]_vars
C13_Witness ==
    /\ response.endpoint = "trending"
    /\ response.cache = "error"
    /\ Len(response.body.articles) > 0
    /\ \E e \in redis : e.key = KeyOf(response) /\ e.value # json_dumps(response.body)

\* C19: once the cache-clear endpoint has reported success, and until the
\* next request, get_trending_cache returns none for the parameters of every
\* response that was cached before.
C19_ClearedNotServed ==
    (response.endpoint = "clear" /\ response.body.message = "Cache cleared successfully")
        => \A w \in cache_writes :
              get_trending_cache(TRUE, w.latitude, w.longitude, w.radius_km, w.limit) = None

\* The text the claims give for an unavailable summarizer.
ClaimedFallback(description) ==
    IF TextLen(description) <= 200 THEN description
    ELSE [base |-> description.base, len |-> 200, dots |-> TRUE]
\* Every article of the response that had no stored summary when the request
\* came carries the fallback text.
FallbackReturned ==
    \A j \in 1..Len(response'.body.articles) :
        LET i == RowOf(response'.body.articles[j].id)
        IN Falsy(news_articles[i].llm_summary)
              => response'.body.articles[j].llm_summary
                    = ClaimedFallback(news_articles[i].description)

\* C14: with no provider configured, a nearby or query request returns, for
\* each article without stored summary, the description if it has at most
\* 200 characters and else its first 200 characters followed by "...", and
\* the request is answered; a provider call that does not deliver a text
\* gives the same summary.
C14_FallbackSummary ==
    [][/\ \A o \in Origins, r \in Radii, l \in Limits :
             (provider = "none" /\ NearbyRequest(1, o.latitude, o.longitude, r, l))
                => /\ response'.endpoint = "nearby" /\ session'[1].pc = "idle"
                   /\ FallbackReturned
       /\ \A l \in Limits, s \in SUBSET (1..Len(NewsData)) :
             (provider = "none" /\ QueryRequest(1, s, l))
                => /\ response'.endpoint = "query" /\ session'[1].pc = "idle"
                   /\ Len(response'.body.articles) = Cardinality(s)
                   /\ FallbackReturned
       /\ \A s \in SummaryTexts \ LLMTexts :
             SummaryReturned(1, s)
                => LET i == Head(session[1].todo).i
                   IN /\ s = ClaimedFallback(news_articles[i].description)
                      /\ IF session'[1].pc = "await"
                         THEN session'[1].done[Len(session[1].done) + 1].llm_summary = s
                         ELSE response'.body.articles[Len(session[1].done) + 1].llm_summary = s
      ]_vars
C14_Witness ==
    /\ provider = "none"
    /\ response.endpoint \in {"nearby", "query"}
    /\ \E j \in 1..Len(response.body.articles) :
          /\ response.body.articles[j].llm_summary.dots
          /\ response.body.articles[j].llm_summary.len = 200
    /\ \E j \in 1..Len(response.body.articles) :
          /\ ~response.body.articles[j].llm_summary.dots
          /\ response.body.articles[j].llm_summary.len > 0
          /\ response.body.articles[j].llm_summary
                = news_articles[RowOf(response.body.articles[j].id)].description

\* An article row without its llm_summary.
Fixed(row) == [row EXCEPT !.llm_summary = NULL]

C18_EventsGeneratedOnce ==
    Len(news_articles) > 0 => Len(user_events) = SampleEventCount

\* data is a whole trending response computed for the parameters q.
Complete(data, q) ==
    /\ data.location = [latitude |-> q.latitude, longitude |-> q.longitude]
    /\ data.radius_km = q.radius_km
    /\ Len(data.articles) = Len(data.trending_scores)
    /\ Len(data.articles) <= q.limit
    /\ data.total_count >= Len(data.articles)
    /\ \A j \in 1..Len(data.articles) :
          /\ data.articles[j].id \in ArticleIds
          /\ data.trending_scores[j] > 0

\* C16: with trending requests of one cache key in flight together, every
\* entry of the cache is the whole response that the last request to set
\* its key computed; a request that ends after a miss returns the whole
\* response it computed, and a request that hits returns the entry it found.
C16_RaceKeepsCacheWhole ==
    [][/\ \A e \in redis' :
             \E w \in cache_writes' :
                /\ w.key = e.key /\ KeyOf(w) = e.key
                /\ e.value = json_dumps(w.data)
                /\ Complete(w.data, w)
       /\ \A e1 \in redis', e2 \in redis' : e1.key = e2.key => e1 = e2
       /\ \A p \in Procs :
             (session[p].pc = "await" /\ session'[p].pc = "idle")
                => /\ response'.cache = session[p].cache /\ response'.log # <<>>
                   /\ response'.latitude = session[p].latitude
                   /\ response'.longitude = session[p].longitude
                   /\ response'.limit = session[p].limit
                   /\ Complete(response'.body, response')
                   /\ \/ redis' = redis
                      \/ \E e \in redis' : /\ e.key = KeyOf(response')
                                            /\ e.value = json_dumps(response'.body)
       /\ (response' # response /\ response'.cache = "hit")
             => \E e \in redis : /\ e.key = KeyOf(response')
                                  /\ response'.body = TrendingResponseFromDict(e.value)
      ]_vars
\* Two requests of one key have both missed; the first has set the cache,
\* the second is still waiting for the summarizer and will set it again.
C16_Witness ==
    /\ response.endpoint = "trending" /\ response.cache = "miss"
    /\ Len(response.body.articles) > 0
    /\ \E e \in redis : e.key = KeyOf(response) /\ e.value = json_dumps(response.body)
    /\ \E p \in Procs :
          /\ session[p].pc = "await" /\ session[p].cache = "miss"
          /\ KeyOf(session[p]) = KeyOf(response)
          /\ session[p].latitude # response.latitude

\* The request r (a response or a request in flight) ran the geo core: a
\* nearby or trending handler that computed, or a query handler that called
\* get_nearby_news (the other query handlers carry no radius).
GeoCoreCalled(r) ==
    \/ r.endpoint = "nearby" /\ "articles" \in DOMAIN r.body
    \/ r.endpoint = "trending" /\ r.cache # "hit" /\ "articles" \in DOMAIN r.body
    \/ r.endpoint = "query" /\ r.radius_km # 0
ClaimedValid(r) ==
    /\ -90000 <= r.latitude /\ r.latitude <= 90000
    /\ -180000 <= r.longitude /\ r.longitude <= 180000
    /\ r.radius_km > 0

\* C17: a request that ran the geo core, or is suspended in it, carries a
\* latitude in [-90, 90], a longitude in [-180, 180] and a positive radius; a
\* nearby or trending request with other values was answered 422.
C17_CoreArgumentsValid ==
    /\ GeoCoreCalled(response) => ClaimedValid(response)
    /\ \A p \in Procs :
          (session[p].pc = "await" /\ session[p].endpoint \in {"nearby", "trending"})
              => ClaimedValid(session[p])
    /\ (response.endpoint \in {"nearby", "trending"} /\ ~ClaimedValid(response))
          => response.body = [status |-> 422]
C17_Witness ==
    /\ response.endpoint = "trending"
    /\ response.latitude = 37774 /\ response.longitude = -122419
    /\ response.radius_km = 0
    /\ response.body = [status |-> 422]

\* The coordinates in play: the origin of the last request, the articles
\* and the events.
PointsInPlay ==
    (IF response.endpoint = "" THEN {} ELSE {<<response.latitude, response.longitude>>})
    \cup {<<news_articles[i].latitude, news_articles[i].longitude>> : i \in Rows}
    \cup {<<user_events[n].latitude, user_events[n].longitude>> : n \in 1..Len(user_events)}

IsQuery == response.endpoint = "query" /\ "call" \in DOMAIN response.log
Dispatched == IsQuery /\ response.log.call # TypeError
\* The handlers with a branch of their own, by intent.
DedicatedHandler(intent) ==
    CASE intent = "category" -> "get_news_by_category"
      [] intent = "source" -> "get_news_by_source"
      [] intent = "score" -> "get_news_by_score"
      [] intent = "search" -> "search_news"
      [] intent = "nearby" -> "get_nearby_news"
      [] OTHER -> "search_news"
\* The provider answered a JSON object that QueryAnalysis accepted.
ParsedAnswer ==
    /\ IsQuery
    /\ response.log.result # None
    /\ "json" \in DOMAIN response.log.result
    /\ \/ "location" \notin DOMAIN response.log.result.json
       \/ /\ -90000 <= response.log.result.json.location.latitude
          /\ response.log.result.json.location.latitude <= 90000
          /\ -180000 <= response.log.result.json.location.longitude
          /\ response.log.result.json.location.longitude <= 180000

CandidatePlace(id) == CHOOSE n \in 1..Len(response.log.nearby) : response.log.nearby[n] = id

\* C22: two articles of a trending response with the same score stand in
\* the order of the candidates, and the candidates are in order of distance
\* from the origin, nearest first.
C22_TiesKeepCandidateOrder ==
    IsTrending =>
        LET articles == response.body.articles
            scores == response.body.trending_scores
            nearby == response.log.nearby
        IN /\ \A j \in 1..Len(articles), k \in 1..Len(articles) :
                 (j < k /\ scores[j] = scores[k])
                     => /\ CandidatePlace(articles[j].id) < CandidatePlace(articles[k].id)
                        /\ DistanceTo(RowOf(articles[j].id)) <= DistanceTo(RowOf(articles[k].id))
           /\ \A m \in 1..Len(nearby), n \in 1..Len(nearby) :
                 m < n => DistanceTo(RowOf(nearby[m])) <= DistanceTo(RowOf(nearby[n]))
\* Two articles with the same score were returned, the nearer one first
\* although it is the later row of the table.
C22_Witness ==
    /\ IsTrending
    /\ Len(response.body.articles) = 2
    /\ response.body.trending_scores[1] = response.body.trending_scores[2]
    /\ RowOf(response.body.articles[1].id) > RowOf(response.body.articles[2].id)
    /\ DistanceTo(RowOf(response.body.articles[1].id))
          < DistanceTo(RowOf(response.body.articles[2].id))

\* What the claim gives an event for the score of its article, in units of
\* 1/ScoreScale(radius): nothing outside the 0.5 degree box, whatever its
\* distance; weight * recency * 0.1 inside the box beyond the radius; weight *
\* recency * max(0.1, 1 - distance/radius) otherwise.
InBox(n) ==
    /\ Abs(user_events[n].latitude - response.latitude) <= 500
    /\ Abs(user_events[n].longitude - response.longitude) <= 500
EventDistance(n) ==
    _calculate_distance(response.latitude, response.longitude,
                        user_events[n].latitude, user_events[n].longitude)
BoxTerm(n) ==
    LET e == user_events[n]
        ticks_ago == response.log.current_time - e.timestamp
        recency == Max(RecencyScale \div 10,
                       RecencyScale - (RecencyScale * ticks_ago) \div (24 * TicksPerHour))
        r == response.radius_km
    IN IF ~InBox(n) THEN 0
       ELSE IF EventDistance(n) > r
       THEN ClaimedWeight(e.event_type) * recency * (DistanceScale(r) \div 10)
       ELSE ClaimedWeight(e.event_type) * recency
               * Max(DistanceScale(r) \div 10, DistanceScale(r) - 10 * EventDistance(n))
RECURSIVE BoxSum(_)
BoxSum(ns) ==
    IF ns = {} THEN 0
    ELSE LET n == CHOOSE x \in ns : TRUE IN BoxTerm(n) + BoxSum(ns \ {n})
\* The events of the last 24 hours of an article.
RecentEventsOf(id) ==
    {n \in 1..Len(user_events) :
        /\ user_events[n].article_id = id
        /\ response.log.current_time - user_events[n].timestamp <= 24 * TicksPerHour}

\* C23: the events counted for a score are chosen by the 0.5 degree box alone:
\* an event in the box beyond radius_km adds weight * recency * 0.1, an
\* event within radius_km but outside the box adds nothing.
C23_BoxNotRadius ==
    IsTrending =>
        \A j \in 1..Len(response.log.nearby) :
            response.log.scores[j] = BoxSum(RecentEventsOf(response.log.nearby[j]))
\* An article was returned as trending whose only event in the box lies
\* beyond the radius, while an event of it within the radius lies outside
\* the box.
C23_Witness ==
    /\ IsTrending
    /\ \E j \in 1..Len(response.body.articles) :
          LET ns == RecentEventsOf(response.body.articles[j].id)
          IN /\ \E n \in ns : InBox(n)
             /\ \A n \in ns : InBox(n) => EventDistance(n) > response.radius_km
             /\ \E n \in ns : ~InBox(n) /\ EventDistance(n) <= response.radius_km
             /\ response.body.trending_scores[j] = BoxSum({n \in ns : InBox(n)})

\* The intent the keyword lists give the words of a user's query.
KeywordIntent(query) ==
    LET words == {query.words[i] : i \in DOMAIN query.words}
    IN IF words \cap {"category", "type", "sports", "technology", "politics",
                      "business"} # {} THEN "category"
       ELSE IF words \cap {"from", "source", "cnn", "bbc", "reuters", "times"} # {}
       THEN "source"
       ELSE IF words \cap {"near", "nearby", "location", "around"} # {} THEN "nearby"
       ELSE IF words \cap {"trending", "popular", "viral"} # {} THEN "trending"
       ELSE IF words \cap {"score", "relevance", "important"} # {} THEN "score"
       ELSE "search"

\* C24: when the analysis of a query is the keyword analysis (no provider, a
\* provider call that raised, or an answer that is no JSON object or that
\* QueryAnalysis rejects), its intent is the keyword intent of the user's
\* query, its search_query is the user's query for intent SEARCH and absent
\* otherwise, and its location is the one of the request.
C24_FallbackOnUserQuery ==
    (IsQuery /\ ~ParsedAnswer) =>
        /\ response.log.analysis.intent = KeywordIntent(response.log.query)
        /\ response.log.analysis.search_query =
              (IF KeywordIntent(response.log.query) = "search" THEN response.log.query
               ELSE None)
        /\ response.log.analysis.location = response.log.user_location

\* C25: a query analysed as NEARBY with a location is answered, not failed,
\* with the articles get_nearby_news returns for the latitude and longitude
\* of that location, radius 10 km and the limit of the request.
C25_NearbyQueryAnswered ==
    (/\ IsQuery
     /\ response.log.analysis.intent = "nearby"
     /\ response.log.analysis.location # None) =>
        LET location == response.log.analysis.location
            rows == get_nearby_news(news_articles, location.latitude, location.longitude,
                                    1000, response.limit)
        IN /\ response.body # [status |-> 500]
           /\ response.log.call =
                 [handler |-> "get_nearby_news",
                  arguments |-> [latitude |-> location.latitude,
                                 longitude |-> location.longitude,
                                 radius_km |-> 1000, limit |-> response.limit]]
           /\ "articles" \in DOMAIN response.body
           /\ Len(response.body.articles) = Len(rows)
           /\ \A j \in 1..Len(rows) :
                 response.body.articles[j].id = news_articles[rows[j]].id

\* C26: the llm_summary stored for an article is never the truncated
\* description: a stored summary that a later request returns without calling
\* the summarizer is a text of the provider.
C26_DegradedNotPersisted ==
    \A i \in Rows :
        Falsy(news_articles[i].llm_summary) \/ news_articles[i].llm_summary \in LLMTexts

====
